---- MODULE Spec2Model ----
(***************************************************************************)
(* Request-admission pipeline of the Oracle MCP server (src/main.py):      *)
(* the RateLimiter, the SecurityValidator and the two tool handlers        *)
(* query_oracle and describe_table that compose them; and the lookup of a  *)
(* configuration value by source precedence (src/config).                  *)
(***************************************************************************)
EXTENDS Integers, Naturals, Sequences, FiniteSets, TLC

\* ------------------------------------------------------------------ bounds
MaxN == 2          \* max_requests is drawn from 1..MaxN
MaxW == 2          \* window_seconds is drawn from 1..MaxW
MaxTime == 3       \* the clock runs over 0..MaxTime
MaxCalls == 4      \* is_allowed calls recorded in one behaviour
MaxFrags == 3      \* fragments in the body of a query given to validate_query
MaxRows == 3       \* db_config.max_rows of the running server
MaxNameLen == 3    \* characters in a short table name given to validate_table_name
MaxOver == 1       \* how far past a complexity limit the queries given to validate_query go

\* The two client ids the server itself uses (session id + tool name).
ClientQuery == "session_query_oracle"
\* Mutant: the client id is the session id alone, the same for both tools.
ClientDescribe_SessionOnly == ClientQuery
ClientDescribe == "session_describe_table"
Clients == {ClientQuery, ClientDescribe}

VARIABLES
    max_requests,      \* RateLimiter.max_requests
    window_seconds,    \* RateLimiter.window_seconds
    requests,          \* RateLimiter.requests: client_id -> count/first_request/last_request
    blocked_clients,   \* RateLimiter.blocked_clients: client_id -> block_until
    now,               \* time.time()
    calls,             \* history: every is_allowed call, with what it saw and returned
    run,               \* the last tool invocation: its steps, verdicts and response
    arg_query,         \* the argument of SecurityValidator.validate_query
    verdict,           \* what validate_query / validate_table_name returned for it
    status,            \* the last get_client_status call and what it reported
    tasks,             \* the handler coroutines in flight, each at a suspension point
    arg_table_name,    \* the argument of SecurityValidator.validate_table_name
    environ,           \* os.environ
    lookup,            \* the last get_value_with_source call and what it returned
    loaded             \* what the last load_config call returned or raised

vars == <<max_requests, window_seconds, requests, blocked_clients, now, calls,
          run, arg_query, verdict, status, tasks, arg_table_name, environ, lookup,
          loaded>>
limiter == <<max_requests, window_seconds, requests, blocked_clients, now, calls>>
config == <<environ, lookup, loaded>>

\* ------------------------------------------------------------ RateLimiter

\* Dict helpers: a dict is a function whose domain is the set of its keys.
DictSet(d, k, v) == [x \in DOMAIN d \cup {k} |-> IF x = k THEN v ELSE d[x]]
DictDel(d, k) == [x \in DOMAIN d \ {k} |-> d[x]]

\* Mutant: the sweep keeps a window for one tick too long (<= for <).
CleanOldEntries_Inclusive(req, t) ==
    [k \in {x \in DOMAIN req : t - req[x].first_request <= window_seconds} |-> req[k]]

\* Mutant: the sweep drops a window one tick before it has run out.
CleanOldEntries_Eager(req, t) ==
    [k \in {x \in DOMAIN req : t - req[x].first_request < window_seconds - 1} |-> req[k]]

\* main.py:353-356  the comprehension that drops expired windows
CleanOldEntries(req, t) ==
    [k \in {x \in DOMAIN req : t - req[x].first_request < window_seconds} |-> req[k]]

\* Mutant: off by one, the limit is reached one request too late (> for >=).
LimitReached_OffByOne(req, c) == req[c].count > max_requests

\* Mutant: one budget shared by all clients.
LimitReached_Shared(req, c) == \E k \in DOMAIN req : req[k].count >= max_requests

\* main.py:372  client_data['count'] >= self.max_requests
LimitReached(req, c) == req[c].count >= max_requests

\* Mutant: the block is computed from the rejected call, not from the window.
BlockUntil_FromNow(client_data, t) == t + window_seconds

\* main.py:374  block_until = client_data['first_request'] + self.window_seconds
BlockUntil(client_data, t) == client_data.first_request + window_seconds

\* Mutant: the sweep runs before the block check, so a blocked call sweeps.
StillBlocked_Sweeps(req, blk, c, t) ==
    [allowed |-> FALSE, requests |-> CleanOldEntries(req, t), blocked_clients |-> blk]

\* main.py:340-346  the early return of a client whose block is still running
StillBlocked(req, blk, c, t) ==
    [allowed |-> FALSE, requests |-> req, blocked_clients |-> blk]

\* Mutant: a sliding window, every accepted request moves the window start.
Increment_Sliding(client_data, t) ==
    [client_data EXCEPT !.count = @ + 1, !.last_request = t, !.first_request = t]

\* main.py:387-388  client_data['count'] += 1; client_data['last_request'] = now
Increment(client_data, t) ==
    [client_data EXCEPT !.count = @ + 1, !.last_request = t]

\* main.py:316-395  is_allowed, as a function of the two dicts and the clock
is_allowed(req, blk, c, t) ==
    IF c \in DOMAIN blk /\ t < blk[c]
    THEN StillBlocked(req, blk, c, t)
    ELSE LET blk1 == IF c \in DOMAIN blk THEN DictDel(blk, c) ELSE blk
             req1 == CleanOldEntries(req, t)
         IN  IF c \notin DOMAIN req1
             THEN [allowed |-> TRUE,
                   requests |-> DictSet(req1, c,
                       [count |-> 1, first_request |-> t, last_request |-> t]),
                   blocked_clients |-> blk1]
             ELSE IF LimitReached(req1, c)
             THEN [allowed |-> FALSE,
                   requests |-> req1,
                   blocked_clients |-> DictSet(blk1, c, BlockUntil(req1[c], t))]
             ELSE [allowed |-> TRUE,
                   requests |-> [req1 EXCEPT ![c] = Increment(@, t)],
                   blocked_clients |-> blk1]

Max(a, b) == IF a >= b THEN a ELSE b

\* Mutant: the status keeps a window for one tick longer than is_allowed does.
StatusWindowLive_Inclusive(client_data, t) ==
    t - client_data.first_request <= window_seconds

\* main.py:432  now - client_data['first_request'] < self.window_seconds
StatusWindowLive(client_data, t) ==
    t - client_data.first_request < window_seconds

\* main.py:397-446  get_client_status: the dict it returns.  The clock of the
\* model is integral, so int() leaves the two durations as they are.
get_client_status(req, blk, c, t) ==
    IF c \in DOMAIN blk /\ t < blk[c]
    THEN [blocked |-> TRUE,
          remaining_block_time |-> blk[c] - t,
          requests_used |-> max_requests,
          requests_remaining |-> 0]
    ELSE IF c \in DOMAIN req /\ StatusWindowLive(req[c], t)
    THEN [blocked |-> FALSE,
          requests_used |-> req[c].count,
          requests_remaining |-> Max(0, max_requests - req[c].count),
          window_reset_in |-> req[c].first_request + window_seconds - t]
    ELSE [blocked |-> FALSE,
          requests_used |-> 0,
          requests_remaining |-> max_requests,
          window_reset_in |-> window_seconds]

\* Mutant: the status call sweeps and unblocks as is_allowed does.
StatusLeaves_Cleaned(req, blk, c, t) ==
    [requests |-> CleanOldEntries(req, t),
     blocked_clients |-> IF c \in DOMAIN blk /\ t >= blk[c] THEN DictDel(blk, c) ELSE blk]

\* main.py:417-446  what get_client_status leaves in the two dicts: it only
\* reads self.blocked_clients and self.requests
StatusLeaves(req, blk, c, t) == [requests |-> req, blocked_clients |-> blk]

\* ------------------------------------------------------- SecurityValidator
\* A query is a sequence of one-character strings.  The patterns of
\* BLOCKED_PATTERNS and ORACLE_SPECIFIC_BLOCKS are matched as re.search matches
\* them: at any start position, \b a word boundary, .* any run of characters
\* (re.DOTALL), \s+ a non-empty run of whitespace.

LowerLetters == <<"a","b","c","d","e","f","g","h","i","j","k","l","m",
                  "n","o","p","q","r","s","t","u","v","w","x","y","z">>
UpperLetters == <<"A","B","C","D","E","F","G","H","I","J","K","L","M",
                  "N","O","P","Q","R","S","T","U","V","W","X","Y","Z">>
Digits == {"0","1","2","3","4","5","6","7","8","9"}
Range(f) == {f[i] : i \in DOMAIN f}

\* \w of the re module, on the characters the model uses
IsWordChar(ch) == ch \in Range(LowerLetters) \cup Range(UpperLetters) \cup Digits \cup {"_"}
\* str.isspace / \s
IsSpace(ch) == ch \in {" ", "\n", "\t"}

\* str.upper, one character
UpperChar(ch) ==
    IF \E i \in 1..26 : LowerLetters[i] = ch
    THEN UpperLetters[CHOOSE i \in 1..26 : LowerLetters[i] = ch]
    ELSE ch

\* Mutant: the text is matched as typed, without upper-casing it.
Upper_Identity(s) == s

\* main.py:185  .upper()
Upper(s) == [i \in 1..Len(s) |-> UpperChar(s[i])]

\* main.py:185  .strip()
Strip(s) ==
    LET keep == {i \in 1..Len(s) : ~IsSpace(s[i])}
    IN  IF keep = {} THEN << >>
        ELSE LET lo == CHOOSE i \in keep : \A j \in keep : i <= j
                 hi == CHOOSE i \in keep : \A j \in keep : j <= i
             IN  SubSeq(s, lo, hi)

\* Mutant: the SELECT-shape test lets every text through.
StartsWith_Anything(s, w) == TRUE

\* str.startswith
StartsWith(s, w) == Len(s) >= Len(w) /\ SubSeq(s, 1, Len(w)) = w

\* the literal w occurs in s from position p on
At(s, w, p) == p >= 1 /\ p + Len(w) - 1 <= Len(s) /\ SubSeq(s, p, p + Len(w) - 1) = w

\* \b just before position p (p = Len(s) + 1 is the end of the text)
WB(s, p) ==
    (p > 1 /\ IsWordChar(s[p - 1])) # (p <= Len(s) /\ IsWordChar(s[p]))

\* The positions right after a match, starting at p, of a literal, of an
\* alternation of literals, of \s+, and of  w1\s+w2.
LitEnds(s, w, p) == IF At(s, w, p) THEN {p + Len(w)} ELSE {}
AltEnds(s, words, p) == UNION {LitEnds(s, w, p) : w \in words}
SpacesEnds(s, p) == {q \in (p + 1)..(Len(s) + 1) : \A r \in p..(q - 1) : IsSpace(s[r])}
PhraseEnds(s, w1, w2, p) ==
    UNION {UNION {LitEnds(s, w2, q) : q \in SpacesEnds(s, e)} : e \in LitEnds(s, w1, p)}

\* Mutant: the alternation is matched as a prefix, with no \b after it.
Bounded_LeftOnly(s, p, ends) == IF WB(s, p) THEN ends ELSE {}

\* \b( ... )\b : the ends, among `ends`, of a match starting at p with a word
\* boundary on both sides
Bounded(s, p, ends) == IF WB(s, p) THEN {e \in ends : WB(s, e)} ELSE {}

Starts(s) == 1..(Len(s) + 1)

\* str.count: occurrences of w in s, left to right, not overlapping
RECURSIVE CountFrom(_, _, _)
CountFrom(s, w, p) ==
    LET found == {q \in p..(Len(s) - Len(w) + 1) : At(s, w, q)}
    IN  IF found = {} THEN 0
        ELSE LET first == CHOOSE q \in found : \A r \in found : q <= r
             IN  1 + CountFrom(s, w, first + Len(w))
\* Mutant: presence is counted, not occurrences.
Count_Presence(s, w) == IF \E p \in 1..Len(s) : At(s, w, p) THEN 1 ELSE 0
Count(s, w) == CountFrom(s, w, 1)

W_SELECT == <<"S", "E", "L", "E", "C", "T">>
W_UNION == <<"U", "N", "I", "O", "N">>
W_JOIN == <<"J", "O", "I", "N">>
W_DUAL == <<"D", "U", "A", "L">>
W_INTO == <<"I", "N", "T", "O">>
W_OUTFILE == <<"O", "U", "T", "F", "I", "L", "E">>
W_CONNECT == <<"C", "O", "N", "N", "E", "C", "T">>
W_BY == <<"B", "Y">>
W_LOAD_FILE == <<"L", "O", "A", "D", "_", "F", "I", "L", "E">>

\* main.py:137
DmlDdlVerbs ==
    {<<"I", "N", "S", "E", "R", "T">>,
     <<"U", "P", "D", "A", "T", "E">>,
     <<"D", "E", "L", "E", "T", "E">>,
     <<"D", "R", "O", "P">>,
     <<"C", "R", "E", "A", "T", "E">>,
     <<"A", "L", "T", "E", "R">>,
     <<"T", "R", "U", "N", "C", "A", "T", "E">>,
     <<"G", "R", "A", "N", "T">>,
     <<"R", "E", "V", "O", "K", "E">>}
\* main.py:138
ExecMarkers ==
    {<<"E", "X", "E", "C">>,
     <<"E", "X", "E", "C", "U", "T", "E">>,
     <<"S", "P", "_">>,
     <<"X", "P", "_">>}
\* main.py:143
TimeMarkers ==
    {<<"W", "A", "I", "T", "F", "O", "R">>,
     <<"D", "E", "L", "A", "Y">>}
\* main.py:145
SystemPrefixes ==
    {<<"D", "B", "M", "S", "_">>,
     <<"U", "T", "L", "_">>,
     <<"S", "Y", "S", ".">>}
\* main.py:147
InjectionFunctions ==
    {<<"C", "H", "R">>,
     <<"A", "S", "C", "I", "I">>,
     <<"S", "U", "B", "S", "T", "R">>}
\* main.py:152
OracleXml ==
    {<<"D", "B", "M", "S", "_", "X", "M", "L", "Q", "U", "E", "R", "Y">>,
     <<"D", "B", "M", "S", "_", "X", "M", "L", "G", "E", "N">>,
     <<"E", "X", "T", "R", "A", "C", "T", "V", "A", "L", "U", "E">>}
\* main.py:153
OracleInfo ==
    {<<"S", "Y", "S", "_", "C", "O", "N", "T", "E", "X", "T">>,
     <<"U", "S", "E", "R", "E", "N", "V">>}
\* main.py:154
OracleSystem ==
    {<<"D", "B", "M", "S", "_", "P", "I", "P", "E">>,
     <<"D", "B", "M", "S", "_", "L", "O", "C", "K">>}
\* main.py:155
OracleJava ==
    {<<"J", "A", "V", "A", "_", "C", "A", "L", "L">>,
     <<"D", "B", "M", "S", "_", "J", "A", "V", "A">>}
\* main.py:156
OracleNet ==
    {<<"U", "T", "L", "_", "H", "T", "T", "P">>,
     <<"U", "T", "L", "_", "F", "I", "L", "E">>,
     <<"U", "T", "L", "_", "T", "C", "P">>}
\* main.py:157
OracleExport ==
    {<<"D", "B", "M", "S", "_", "E", "X", "P", "O", "R", "T", "_", "E", "X", "T", "E", "N", "S", "I", "O", "N">>}

\* \b(w1|w2|...)\b somewhere in s
HasWholeWord(s, words) ==
    \E p \in Starts(s) : Bounded(s, p, AltEnds(s, words, p)) # {}

\* \b(first)\b.*\b(second)\b somewhere in s, each side given by its ends
\* operator applied at a start position
ThenWholeWord(s, firstWords, secondWords) ==
    \E p \in Starts(s) : \E e \in Bounded(s, p, AltEnds(s, firstWords, p)) :
        \E q \in e..(Len(s) + 1) : Bounded(s, q, AltEnds(s, secondWords, q)) # {}

\* Mutant: ';.+' for ';.*', a separator counts only when something follows it.
MatchesSeparator_NeedsContent(s) ==
    \E p \in 1..Len(s) : s[p] = ";" /\ p < Len(s)

\* main.py:141  r';.*'
MatchesSeparator(s) == \E p \in 1..Len(s) : s[p] = ";"

\* main.py:139  r'--.*'
MatchesLineComment(s) == \E p \in Starts(s) : At(s, <<"-", "-">>, p)

\* main.py:140  r'/\*.*?\*/'
MatchesBlockComment(s) ==
    \E p \in Starts(s) : /\ At(s, <<"/", "*">>, p)
                         /\ \E q \in (p + 2)..(Len(s) + 1) : At(s, <<"*", "/">>, q)

\* main.py:144  r'\b(LOAD_FILE|INTO\s+OUTFILE)\b'
MatchesFileOps(s) ==
    \E p \in Starts(s) :
        Bounded(s, p, LitEnds(s, W_LOAD_FILE, p) \cup PhraseEnds(s, W_INTO, W_OUTFILE, p)) # {}

\* main.py:146  r'\b(DUAL)\b.*\b(CONNECT\s+BY)\b'
MatchesDualConnectBy(s) ==
    \E p \in Starts(s) : \E e \in Bounded(s, p, LitEnds(s, W_DUAL, p)) :
        \E q \in e..(Len(s) + 1) : Bounded(s, q, PhraseEnds(s, W_CONNECT, W_BY, q)) # {}

\* main.py:136-158, 194  all_patterns = BLOCKED_PATTERNS + ORACLE_SPECIFIC_BLOCKS:
\* does pattern number i (in list order) match s
PatternCount == 17
PatternMatches(i, s) ==
    CASE i = 1  -> HasWholeWord(s, DmlDdlVerbs)
      [] i = 2  -> HasWholeWord(s, ExecMarkers)
      [] i = 3  -> MatchesLineComment(s)
      [] i = 4  -> MatchesBlockComment(s)
      [] i = 5  -> MatchesSeparator(s)
      [] i = 6  -> ThenWholeWord(s, {W_UNION}, {W_SELECT})
      [] i = 7  -> HasWholeWord(s, TimeMarkers)
      [] i = 8  -> MatchesFileOps(s)
      [] i = 9  -> HasWholeWord(s, SystemPrefixes)
      [] i = 10 -> MatchesDualConnectBy(s)
      [] i = 11 -> ThenWholeWord(s, InjectionFunctions, {W_SELECT})
      [] i = 12 -> HasWholeWord(s, OracleXml)
      [] i = 13 -> HasWholeWord(s, OracleInfo)
      [] i = 14 -> HasWholeWord(s, OracleSystem)
      [] i = 15 -> HasWholeWord(s, OracleJava)
      [] i = 16 -> HasWholeWord(s, OracleNet)
      [] i = 17 -> HasWholeWord(s, OracleExport)

\* main.py:203-208  the limits of complexity_checks
MaxParentheses == 15
MaxSelects == 8
MaxJoins == 10
MaxQueryLength == 5000

\* main.py:220-224  '\s*\|\|\s*' between two quote characters, and '\s*\+\s*'
QuoteOpQuote(s, quote, op) ==
    \E p \in 1..Len(s) :
        /\ s[p] = quote
        /\ \E a \in {p + 1} \cup SpacesEnds(s, p + 1) :
            \E b \in LitEnds(s, op, a) :
                \E c \in {b} \cup SpacesEnds(s, b) : c <= Len(s) /\ s[c] = quote
MatchesConcat(s) ==
    \/ QuoteOpQuote(s, "'", <<"|", "|">>)
    \/ QuoteOpQuote(s, "'", <<"+">>)
    \/ QuoteOpQuote(s, "\"", <<"|", "|">>)

Verdict(ok, msg, pat) == [accepted |-> ok, message |-> msg, pattern |-> pat]

\* main.py:161-237  SecurityValidator.validate_query
validate_query(query) ==
    IF query = << >> \/ Strip(query) = << >>
    THEN Verdict(FALSE, "Query cannot be empty", 0)
    ELSE LET query_upper == Upper(Strip(query))
         IN  IF ~StartsWith(query_upper, W_SELECT)
             THEN Verdict(FALSE, "Only SELECT queries are allowed", 0)
             ELSE IF \E i \in 1..PatternCount : PatternMatches(i, query_upper)
             THEN Verdict(FALSE, "Query contains blocked pattern",
                     CHOOSE i \in 1..PatternCount :
                         /\ PatternMatches(i, query_upper)
                         /\ \A j \in 1..(i - 1) : ~PatternMatches(j, query_upper))
             ELSE IF Count(query, <<"(">>) > MaxParentheses
             THEN Verdict(FALSE, "Query too complex: Too many parentheses", 0)
             ELSE IF Count(query, W_SELECT) > MaxSelects
             THEN Verdict(FALSE, "Query too complex: Too many SELECT statements", 0)
             ELSE IF Count(query, W_JOIN) > MaxJoins
             THEN Verdict(FALSE, "Query too complex: Too many JOIN operations", 0)
             ELSE IF Len(query) > MaxQueryLength
             THEN Verdict(FALSE, "Query too complex: Query too long", 0)
             ELSE IF MatchesConcat(query)
             THEN Verdict(FALSE, "Query contains suspicious string concatenation", 0)
             ELSE Verdict(TRUE, "Query validated successfully", 0)

\* str.__contains__
Contains(s, w) == \E p \in Starts(s) : At(s, w, p)

\* main.py:265  re.match(r'^[A-Za-z_][A-Za-z0-9_#$]*$', table_name); the final $
\* also matches just before a newline that ends the string
IsIdentStart(ch) == ch \in Range(LowerLetters) \cup Range(UpperLetters) \cup {"_"}
IsIdentChar(ch) == IsIdentStart(ch) \/ ch \in Digits \cup {"#", "$"}
IsIdentifier(s) ==
    /\ Len(s) >= 1
    /\ IsIdentStart(s[1])
    /\ \A i \in 2..Len(s) : IsIdentChar(s[i])
MatchesIdentifier(s) ==
    \/ IsIdentifier(s)
    \/ Len(s) >= 2 /\ s[Len(s)] = "\n" /\ IsIdentifier(SubSeq(s, 1, Len(s) - 1))

\* main.py:271
MaxTableNameLength == 128

\* main.py:277-280  reserved_words, in list order
ReservedWords ==
    << <<"S","Y","S">>, <<"S","Y","S","T","E","M">>, <<"D","U","A","L">>,
       <<"U","S","E","R">>, <<"A","L","L","_","T","A","B","L","E","S">>,
       <<"D","B","A","_","T","A","B","L","E","S">>,
       <<"V","$","S","E","S","S","I","O","N">>,
       <<"V","$","D","A","T","A","B","A","S","E">>, <<"G","V","$">>, <<"X","$">> >>

\* main.py:240-291  SecurityValidator.validate_table_name
validate_table_name(table_name) ==
    IF table_name = << >> \/ Strip(table_name) = << >>
    THEN Verdict(FALSE, "Table name cannot be empty", 0)
    ELSE IF ~MatchesIdentifier(table_name)
    THEN Verdict(FALSE, "Invalid table name format", 0)
    ELSE IF Len(table_name) > MaxTableNameLength
    THEN Verdict(FALSE, "Table name too long", 0)
    ELSE IF \E i \in 1..Len(ReservedWords) : Contains(Upper(table_name), ReservedWords[i])
    THEN Verdict(FALSE, "Table name contains reserved word",
            CHOOSE i \in 1..Len(ReservedWords) :
                /\ Contains(Upper(table_name), ReservedWords[i])
                /\ \A j \in 1..(i - 1) : ~Contains(Upper(table_name), ReservedWords[j]))
    ELSE Verdict(TRUE, "Table name validated successfully", 0)

\* ------------------------------------------------------------ tool handlers
\* A handler runs from its first line to its return without a suspension that
\* lets another handler in, so one invocation is one step.  `steps` lists, in
\* order, the collaborators the invocation called.

NotCalled == [accepted |-> FALSE, message |-> "not called", pattern |-> 0]
NoStatement == [wrapped |-> FALSE, rownum |-> 0]
\* Mutant: the limit argument is used as given, not capped by max_rows.
Min_Uncapped(a, b) == a
Min(a, b) == IF a <= b THEN a ELSE b

\* What the database does once asked: oracledb.connect raises, cursor.execute
\* raises, or the statement runs.
DbOutcomes == {"connect_error", "execute_error", "ok"}

W_ROWNUM == <<"R","O","W","N","U","M">>

\* the arguments the tools are called with
W_select == <<"s","e","l","e","c","t">>
Q_Valid == W_SELECT \o <<" ", "x">>
Q_Blocked == W_select \o <<" ", "x", ";">>
Q_Rownum == W_select \o <<" ">> \o <<"r","o","w","n","u","m">>
ToolQueries == {Q_Valid, Q_Blocked, Q_Rownum}
ToolLimits == {-1, 0, 2, 5}
ToolTableNames == {<<"x">>, <<"x", ";">>}

\* validate_query, validate_table_name and 'ROWNUM' in query.upper() on the
\* arguments above, computed once
QueryVerdicts == [q \in ToolQueries |-> validate_query(q)]
TableNameVerdicts == [n \in ToolTableNames |-> validate_table_name(n)]
MentionsRownum == [q \in ToolQueries |-> Contains(Upper(q), W_ROWNUM)]
ValidateQueryOf(q) == IF q \in ToolQueries THEN QueryVerdicts[q] ELSE validate_query(q)
ValidateTableNameOf(n) ==
    IF n \in ToolTableNames THEN TableNameVerdicts[n] ELSE validate_table_name(n)
RownumIn(q) == IF q \in ToolQueries THEN MentionsRownum[q] ELSE Contains(Upper(q), W_ROWNUM)


\* Mutant: the connection is closed only when the body of the with block ends
\* without an exception.
DatabaseSteps_LeakOnError(db) ==
    IF db = "connect_error" THEN <<"connect">>
    ELSE IF db \in {"ok", "close_error"} THEN <<"connect", "execute", "close">>
    ELSE <<"connect", "execute">>

\* main.py:658-718, 876-884  get_connection around cursor.execute: connect, then
\* execute if connected, then the close of the finally clause if connected
DatabaseSteps(db) ==
    IF db = "connect_error" THEN <<"connect">>
    ELSE <<"connect", "execute", "close">>
\* main.py:925-944, 1080-1098  the except clauses of the handlers: an
\* oracledb.Error gives "Database Error: ...", any other exception "Error: ...";
\* an error of connection.close() is logged inside get_connection (main.py:714-718)
DatabaseResponse(db) ==
    IF db \in {"ok", "close_error"} THEN "result"
    ELSE IF db = "other_error" THEN "Error"
    ELSE "Database Error"

\* Mutant: the handler goes on to the database after a failed validation.
AfterValidation_Ignored(valid, onward, rejected) == onward

\* main.py:850-857, 1009-1016  if not is_valid: return "Security Error: ..."
AfterValidation(valid, onward, rejected) == IF valid.accepted THEN onward ELSE rejected

\* main.py:815-944  query_oracle(query, limit), given the limiter's verdict
query_oracle(allowed, q, lim, db) ==
    IF ~allowed
    THEN [tool |-> "query_oracle", steps |-> <<"is_allowed">>, allowed |-> FALSE,
          valid |-> NotCalled, response |-> "Error: rate limit",
          statement |-> NoStatement]
    ELSE LET valid == ValidateQueryOf(q)
             n == Min(lim, MaxRows)
             stmt == [wrapped |-> ~RownumIn(q) /\ n > 0, rownum |-> n]
             onward ==
                 IF n < 0
                 THEN [tool |-> "query_oracle", steps |-> <<"is_allowed", "validate_query">>,
                       allowed |-> TRUE, valid |-> valid, response |-> "Error",
                       statement |-> NoStatement]
                 ELSE [tool |-> "query_oracle",
                       steps |-> <<"is_allowed", "validate_query">> \o DatabaseSteps(db),
                       allowed |-> TRUE, valid |-> valid,
                       response |-> DatabaseResponse(db),
                       statement |-> IF db = "connect_error" THEN NoStatement ELSE stmt]
             rejected ==
                 [tool |-> "query_oracle", steps |-> <<"is_allowed", "validate_query">>,
                  allowed |-> TRUE, valid |-> valid, response |-> "Security Error",
                  statement |-> NoStatement]
         IN  AfterValidation(valid, onward, rejected)

\* main.py:975-1098  describe_table(table_name), given the limiter's verdict
describe_table(allowed, name, db) ==
    IF ~allowed
    THEN [tool |-> "describe_table", steps |-> <<"is_allowed">>, allowed |-> FALSE,
          valid |-> NotCalled, response |-> "Error: rate limit",
          statement |-> NoStatement]
    ELSE LET valid == ValidateTableNameOf(name)
             onward ==
                 [tool |-> "describe_table",
                  steps |-> <<"is_allowed", "validate_table_name">> \o DatabaseSteps(db),
                  allowed |-> TRUE, valid |-> valid,
                  response |-> DatabaseResponse(db),
                  statement |-> NoStatement]
             rejected ==
                 [tool |-> "describe_table", steps |-> <<"is_allowed", "validate_table_name">>,
                  allowed |-> TRUE, valid |-> valid, response |-> "Security Error",
                  statement |-> NoStatement]
         IN  AfterValidation(valid, onward, rejected)

\* ------------------------------------------------------------------ inputs

Cat(a, b) == a \o b
Fragments ==
    {W_SELECT, W_select, <<" ">>, <<"\n">>, <<";">>, <<"x">>, <<"D","r","o","p">>,
     <<"-","-">>, <<"/","*">>, <<"*","/">>, <<"U","n","i","o","n">>}
Heads == {<< >>, W_SELECT \o <<" ">>}

\* every concatenation of at most n fragments
RECURSIVE Bodies(_)
Bodies(n) ==
    IF n = 0 THEN {<< >>}
    ELSE LET shorter == Bodies(n - 1)
         IN  shorter \cup {Cat(b, f) : b \in shorter, f \in Fragments}

\* str.lower, and a word with only its first letter in upper case
LowerChar(ch) ==
    IF \E i \in 1..26 : UpperLetters[i] = ch
    THEN LowerLetters[CHOOSE i \in 1..26 : UpperLetters[i] = ch]
    ELSE ch
Lower(s) == [i \in 1..Len(s) |-> LowerChar(s[i])]
Capitalized(s) == [i \in 1..Len(s) |-> IF i = 1 THEN s[i] ELSE LowerChar(s[i])]

\* each verb of the first blocked pattern, in three letter cases, after and
\* before a few contexts that do or do not make it a whole word
VerbQueries ==
    {Cat(Cat(pre, v), post) :
        pre \in {W_SELECT \o <<" ">>, W_SELECT \o <<" ", "x">>, W_select \o <<"\n">>, <<"x", " ">>},
        v \in UNION {{w, Lower(w), Capitalized(w)} : w \in DmlDdlVerbs},
        post \in {<< >>, <<" ", "x">>, <<"_">>, <<"(">>}}

Queries == {Cat(h, b) : h \in Heads, b \in Bodies(MaxFrags)} \cup VerbQueries

\* table names: every string of at most MaxNameLen of these characters, each
\* reserved word in three letter cases alone and inside a longer name, each
\* reserved word short of its last character, and names of 128 and 129 characters
NameChars == {"a", "_", "1", "$", " ", "\n", "-"}
RECURSIVE NamesUpTo(_)
NamesUpTo(n) ==
    IF n = 0 THEN {<< >>}
    ELSE LET shorter == NamesUpTo(n - 1)
         IN  shorter \cup {Cat(b, <<ch>>) : b \in shorter, ch \in NameChars}
ReservedNames ==
    {Cat(Cat(pre, w), post) :
        pre \in {<< >>, <<"a">>},
        w \in UNION {{r, Lower(r), Capitalized(r), SubSeq(r, 1, Len(r) - 1)} :
                        r \in Range(ReservedWords)},
        post \in {<< >>, <<"1">>, <<"\n">>}}
LongName(n) == [i \in 1..n |-> "a"]
LongNames ==
    {LongName(MaxTableNameLength - 1), LongName(MaxTableNameLength),
     LongName(MaxTableNameLength + 1), Cat(LongName(MaxTableNameLength - 1), <<"\n">>),
     Cat(LongName(MaxTableNameLength), <<"\n">>)}
TableNames == NamesUpTo(MaxNameLen) \cup ReservedNames \cup LongNames

\* queries around the four complexity limits: s times SELECT, p times '(',
\* j times JOIN, each from one under its limit to MaxOver past it, the keywords
\* in upper or lower case; the query of test_complex_query_blocked; and queries
\* of about 5000 characters
Repeat(w, n) == [i \in 1..(n * Len(w)) |-> w[((i - 1) % Len(w)) + 1]]
Around(limit) == (limit - 1)..(limit + MaxOver)
ComplexQuery(s, p, j, select, join) ==
    Cat(Cat(Repeat(Cat(select, <<" ">>), s), Repeat(<<"(">>, p)),
        Repeat(Cat(<<" ">>, join), j))
ParenQuery(k) ==
    Cat(Cat(Cat(Cat(W_SELECT, <<" ">>), Repeat(<<"(">>, k)), <<"1">>), Repeat(<<")">>, k))
LongQuery(n, pad) ==
    Cat(Cat(Cat(pad, W_SELECT), <<" ">>), Repeat(<<"x">>, n - Len(pad) - Len(W_SELECT) - 1))
ComplexQueries ==
    {ComplexQuery(s, p, j, select, join) :
        s \in Around(MaxSelects), p \in Around(MaxParentheses), j \in Around(MaxJoins),
        select \in {W_SELECT, W_select}, join \in {W_JOIN, Lower(W_JOIN)}}
    \cup {ParenQuery(k) : k \in Around(MaxParentheses)}
    \cup {LongQuery(n, pad) : n \in Around(MaxQueryLength), pad \in {<< >>, <<" ">>}}

NoRun == [tool |-> "none", steps |-> << >>, allowed |-> FALSE, valid |-> NotCalled,
          response |-> "none", statement |-> NoStatement]
Pending == [accepted |-> FALSE, message |-> "pending", pattern |-> 0]

\* ---------------------------------------------------- resource handlers

\* What the database can do to a handler: refuse the connection, fail the
\* statement (oracledb.Error), answer, answer with rows the handler cannot
\* format (another exception), answer and then fail connection.close().
ConnectionOutcomes == DbOutcomes \cup {"other_error", "close_error"}
Resources == {"get_tables", "get_views"}

\* main.py:741-750, 769-778  get_tables and get_views: no limiter, no validator,
\* no except clause; an exception leaves the handler after get_connection has
\* run its finally clause
get_resource(name, db) ==
    [tool |-> name, steps |-> DatabaseSteps(db), allowed |-> FALSE, valid |-> NotCalled,
     response |-> IF db \in {"ok", "close_error"} THEN "result" ELSE "raised",
     statement |-> NoStatement]

\* ------------------------------------------------------------ history

\* What one call leaves in the history: who called, when, the verdict, and the
\* two dicts as the call found them.
CallRecord(c, r) ==
    [client |-> c, time |-> now, allowed |-> r.allowed,
     pre_requests |-> requests, pre_blocked |-> blocked_clients]

\* What one get_client_status call leaves in the history: who asked, when,
\* after how many is_allowed calls, and the dict it got back.
NoStatus == [client |-> "none", time |-> 0, at |-> 0, report |-> [blocked |-> FALSE]]
StatusRecord(c, report) ==
    [client |-> c, time |-> now, at |-> Len(calls), report |-> report]

\* ------------------------------------------------------ concurrent handlers
\* A tool invocation is a coroutine.  It can be suspended where the handler
\* awaits: entering and leaving `async with get_connection()`.  Between two
\* such points it runs alone.

Tasks == {"task1", "task2"}
Tools == {"query_oracle", "describe_table"}
Idle == [pc |-> "idle", tool |-> "none"]

\* main.py:815, 975  client_id = f"{session_id}_<tool name>"
ClientIdOf(tool) == IF tool = "query_oracle" THEN ClientQuery ELSE ClientDescribe

\* Mutant: a lost update, the call works on the dicts as the call before it
\* found them.
LimiterDicts_LostUpdate ==
    IF calls = << >>
    THEN [requests |-> requests, blocked_clients |-> blocked_clients]
    ELSE [requests |-> calls[Len(calls)].pre_requests,
          blocked_clients |-> calls[Len(calls)].pre_blocked]

\* main.py:316-395  self.requests and self.blocked_clients as is_allowed reads
\* and writes them: there is no await between its first line and its return
LimiterDicts == [requests |-> requests, blocked_clients |-> blocked_clients]

\* ------------------------------------------------------------ configuration
\* The name of an environment variable and its value are sequences of
\* characters.  Optional[str] is a sequence of length at most one: None is the
\* empty sequence, Some(<< >>) holds the empty string.

None == << >>
Some(v) == <<v>>

K_ORACLE_HOST == <<"O","R","A","C","L","E","_","H","O","S","T">>
K_ORACLE_USERNAME == <<"O","R","A","C","L","E","_","U","S","E","R","N","A","M","E">>
K_PATH == <<"P","A","T","H">>

\* sources.py:38  self.mcp_env_prefix = "MCP_"
McpPrefix == <<"M","C","P","_">>

\* sources.py:123-131  DefaultSource.defaults
Defaults ==
    LET names == <<<<"O","R","A","C","L","E","_","H","O","S","T">>,
                  <<"O","R","A","C","L","E","_","P","O","R","T">>,
                  <<"O","R","A","C","L","E","_","S","E","R","V","I","C","E","_","N","A","M","E">>,
                  <<"C","O","N","N","E","C","T","I","O","N","_","T","I","M","E","O","U","T">>,
                  <<"Q","U","E","R","Y","_","T","I","M","E","O","U","T">>,
                  <<"M","A","X","_","R","O","W","S">>,
                  <<"L","O","G","_","L","E","V","E","L">>>>
        values == <<<<"l","o","c","a","l","h","o","s","t">>, <<"1","5","2","1">>,
                   <<"O","R","C","L">>, <<"3","0">>, <<"3","0","0">>,
                   <<"1","0","0","0">>, <<"I","N","F","O">>>>
    IN  [k \in Range(names) |-> values[CHOOSE i \in DOMAIN names : names[i] = k]]

\* os.getenv
getenv(name) == IF name \in DOMAIN environ THEN Some(environ[name]) ELSE None

\* Mutant: the plain variable wins over the MCP_-prefixed one.
MCPConfigSource_get_value_PlainFirst(key) ==
    IF getenv(key) # None THEN getenv(key)
    ELSE IF getenv(McpPrefix \o key) # None THEN getenv(McpPrefix \o key)
    ELSE None

\* sources.py:41-56  MCPConfigSource.get_value
MCPConfigSource_get_value(key) ==
    IF getenv(McpPrefix \o key) # None THEN getenv(McpPrefix \o key)
    ELSE IF getenv(key) # None THEN getenv(key)
    ELSE None

\* sources.py:58-62  MCPConfigSource.is_available: len(os.environ) > 0
MCPConfigSource_is_available == DOMAIN environ # {}

\* sources.py:134-139  DefaultSource.get_value
DefaultSource_get_value(key) ==
    IF key \in DOMAIN Defaults THEN Some(Defaults[key]) ELSE None

\* sources.py:64-66, 145-147  get_source_name
MCPSourceName == "MCP Config Environment"
DefaultSourceName == "Default Values"

\* loader.py:177-192  EnhancedConfigLoader.get_value_with_source, over
\* reversed(self.config_sources): MCPConfigSource, then DefaultSource (whose
\* is_available is always True)
get_value_with_source(key) ==
    IF MCPConfigSource_is_available /\ MCPConfigSource_get_value(key) # None
    THEN [value |-> MCPConfigSource_get_value(key), source |-> Some(MCPSourceName)]
    ELSE IF DefaultSource_get_value(key) # None
    THEN [value |-> DefaultSource_get_value(key), source |-> Some(DefaultSourceName)]
    ELSE [value |-> None, source |-> None]

\* the keys looked up, the variables the environment may hold, their values
ConfigKeys == {K_ORACLE_HOST, K_ORACLE_USERNAME}
EnvNames == ConfigKeys \cup {McpPrefix \o k : k \in ConfigKeys} \cup {K_PATH}
EnvValues == {<< >>, <<"a">>, <<"b">>}
Environments == UNION {[d -> EnvValues] : d \in SUBSET EnvNames}

NoLookup == [key |-> << >>, value |-> None, source |-> None]

\* ------------------------------------------------------ the configuration loader

K_ORACLE_PORT == <<"O", "R", "A", "C", "L", "E", "_", "P", "O", "R", "T">>
K_ORACLE_SERVICE_NAME == <<"O", "R", "A", "C", "L", "E", "_", "S", "E", "R", "V", "I", "C", "E", "_", "N", "A", "M", "E">>
K_ORACLE_PASSWORD == <<"O", "R", "A", "C", "L", "E", "_", "P", "A", "S", "S", "W", "O", "R", "D">>
K_CONNECTION_TIMEOUT == <<"C", "O", "N", "N", "E", "C", "T", "I", "O", "N", "_", "T", "I", "M", "E", "O", "U", "T">>
K_QUERY_TIMEOUT == <<"Q", "U", "E", "R", "Y", "_", "T", "I", "M", "E", "O", "U", "T">>
K_MAX_ROWS == <<"M", "A", "X", "_", "R", "O", "W", "S">>

\* loader.py:58-67  CONFIG_PARAMETER_MAP, in the order of the dict
ConfigFields == <<"host", "port", "service_name", "username", "password",
                  "connection_timeout", "query_timeout", "max_rows">>
CONFIG_PARAMETER_MAP ==
    [host |-> K_ORACLE_HOST, port |-> K_ORACLE_PORT,
     service_name |-> K_ORACLE_SERVICE_NAME, username |-> K_ORACLE_USERNAME,
     password |-> K_ORACLE_PASSWORD, connection_timeout |-> K_CONNECTION_TIMEOUT,
     query_timeout |-> K_QUERY_TIMEOUT, max_rows |-> K_MAX_ROWS]
\* loader.py:91, 96  the fields converted with int()
IntFields == {"port", "connection_timeout", "query_timeout", "max_rows"}
\* loader.py:112
RequiredFields == <<"host", "service_name", "username", "password">>

\* int(str): blanks around the text are dropped, then an optional sign, then
\* digits, with single underscores allowed between digits; anything else is a
\* ValueError
DigitChars == <<"0", "1", "2", "3", "4", "5", "6", "7", "8", "9">>
DigitValue(ch) == (CHOOSE i \in 1..10 : DigitChars[i] = ch) - 1
RECURSIVE DigitsValue(_)
DigitsValue(s) ==
    IF s = << >> THEN 0
    ELSE DigitsValue(SubSeq(s, 1, Len(s) - 1)) * 10 + DigitValue(s[Len(s)])
ParseInt(text) ==
    LET t == Strip(text)
        signed == t # << >> /\ t[1] \in {"+", "-"}
        body == IF signed THEN Tail(t) ELSE t
        wellformed ==
            /\ body # << >>
            /\ \A i \in 1..Len(body) : body[i] \in Digits \cup {"_"}
            /\ body[1] \in Digits /\ body[Len(body)] \in Digits
            /\ \A i \in 1..(Len(body) - 1) : ~(body[i] = "_" /\ body[i + 1] = "_")
        magnitude == DigitsValue(SelectSeq(body, LAMBDA ch : ch \in Digits))
    IN  IF ~wellformed THEN [ok |-> FALSE, value |-> 0]
        ELSE [ok |-> TRUE,
              value |-> IF signed /\ t[1] = "-" THEN 0 - magnitude ELSE magnitude]

\* security.py:215  re.match(r'^[a-zA-Z][a-zA-Z0-9_]*$', username); the final $
\* also matches just before a newline that ends the text
MatchesUsername(s) ==
    LET name == IF s # << >> /\ s[Len(s)] = "\n" THEN SubSeq(s, 1, Len(s) - 1) ELSE s
        letter(ch) == ch \in Range(LowerLetters) \cup Range(UpperLetters)
    IN  /\ name # << >>
        /\ letter(name[1])
        /\ \A i \in 2..Len(name) : letter(name[i]) \/ name[i] \in Digits \cup {"_"}

\* security.py:197-233  validate_credential_format: the list of errors
validate_credential_format(username, password) ==
    LET alnum(ch) ==
            ch \in Range(LowerLetters) \cup Range(UpperLetters) \cup Digits
    IN  (IF username = << >> THEN <<"Username cannot be empty">>
         ELSE IF Len(username) < 2 THEN <<"Username must be at least 2 characters long">>
         ELSE IF ~MatchesUsername(username) THEN <<"Username must start with a letter">>
         ELSE << >>)
        \o (IF password = << >> THEN <<"Password cannot be empty">>
            ELSE IF Len(password) < 6 THEN <<"Password must be at least 6 characters long">>
            ELSE << >>)
        \o (IF Len(password) >= 6 /\ ~\E i \in 1..Len(password) : alnum(password[i])
            THEN <<"Password should contain at least one letter or digit">>
            ELSE << >>)

\* Mutant: the loader lets any positive max_rows through to DatabaseConfig.
MaxRowsPreValid_NoUpperBound(v) == v > 0
\* loader.py:143-146  if not isinstance(port_value, int) or port_value <= 0 or port_value > 65535
PortPreValid(v) == ~(v <= 0 \/ v > 65535)
\* loader.py:149-153  if not isinstance(value, int) or value <= 0
TimeoutPreValid(v) == ~(v <= 0)
\* loader.py:155-158  if not isinstance(value, int) or value <= 0 or value > 10000
MaxRowsPreValid(v) == ~(v <= 0 \/ v > 10000)

\* models.py:36-72  DatabaseConfig(**config_values): the field defaults and the
\* three field validators; FALSE when pydantic raises its ValidationError
DatabaseConfig(values) ==
    LET given(f, default) == IF f \in DOMAIN values THEN values[f] ELSE default
        c == [host |-> values["host"],
              port |-> given("port", 1521),
              service_name |-> values["service_name"],
              username |-> values["username"],
              password |-> values["password"],
              connection_timeout |-> given("connection_timeout", 30),
              query_timeout |-> given("query_timeout", 300),
              max_rows |-> given("max_rows", 1000)]
        valid == /\ 1 <= c.port /\ c.port <= 65535
                 /\ c.connection_timeout > 0 /\ c.query_timeout > 0
                 /\ 1 <= c.max_rows /\ c.max_rows <= 10000
    IN  [valid |-> valid, config |-> c]

\* What load_config gives back: the configuration, or the error raised with
\* the field it is about (a MissingParameterError names the field by its key,
\* CONFIG_PARAMETER_MAP[field]).
Raised(kind, parameter) == [outcome |-> kind, parameter |-> parameter, config |-> None]
Returned(c) == [outcome |-> "config", parameter |-> "", config |-> Some(c)]
NotLoaded == [outcome |-> "not called", parameter |-> "", config |-> None]

\* loader.py:79-175  EnhancedConfigLoader.load_config
load_config ==
    LET raw(f) == get_value_with_source(CONFIG_PARAMETER_MAP[f]).value
        found == {i \in 1..Len(ConfigFields) : raw(ConfigFields[i]) # None}
        notInt == {i \in found : /\ ConfigFields[i] \in IntFields
                                 /\ ~ParseInt(raw(ConfigFields[i])[1]).ok}
        config_values ==
            [f \in {ConfigFields[i] : i \in found} |->
                IF f \in IntFields THEN ParseInt(raw(f)[1]).value ELSE raw(f)[1]]
        missing == {i \in 1..Len(RequiredFields) :
                        \/ RequiredFields[i] \notin DOMAIN config_values
                        \/ config_values[RequiredFields[i]] = << >>}
        credential_errors ==
            validate_credential_format(config_values["username"], config_values["password"])
        has(f) == f \in DOMAIN config_values
    IN  IF notInt # {}
        THEN Raised("ValidationError",
                    ConfigFields[CHOOSE i \in notInt : \A j \in notInt : i <= j])
        ELSE IF missing # {}
        THEN Raised("MissingParameterError",
                    RequiredFields[CHOOSE i \in missing : \A j \in missing : i <= j])
        ELSE IF credential_errors # << >>
        THEN Raised("ValidationError", "credentials")
        ELSE IF has("port") /\ ~PortPreValid(config_values["port"])
        THEN Raised("ValidationError", "port")
        ELSE IF has("connection_timeout") /\ ~TimeoutPreValid(config_values["connection_timeout"])
        THEN Raised("ValidationError", "connection_timeout")
        ELSE IF has("query_timeout") /\ ~TimeoutPreValid(config_values["query_timeout"])
        THEN Raised("ValidationError", "query_timeout")
        ELSE IF has("max_rows") /\ ~MaxRowsPreValid(config_values["max_rows"])
        THEN Raised("ValidationError", "max_rows")
        ELSE IF ~DatabaseConfig(config_values).valid
        THEN Raised("ConfigurationError", "")
        ELSE Returned(DatabaseConfig(config_values).config)

\* The environments load_config is run in: each variable absent or set to one
\* of a few texts (empty, at and around the limits, not a number).
Opt(values) == {None} \cup {Some(v) : v \in values}
Bind(name, opt) == IF opt = None THEN << >> ELSE name :> opt[1]
LoadEnvironments ==
    {Bind(K_ORACLE_HOST, h) @@ Bind(K_ORACLE_PORT, p)
        @@ Bind(McpPrefix \o K_ORACLE_PORT, mp) @@ Bind(K_ORACLE_SERVICE_NAME, sn)
        @@ Bind(K_ORACLE_USERNAME, u) @@ Bind(K_ORACLE_PASSWORD, pw)
        @@ Bind(K_CONNECTION_TIMEOUT, ct) @@ Bind(K_QUERY_TIMEOUT, qt)
        @@ Bind(K_MAX_ROWS, mr) :
        h \in Opt({<< >>, <<"h">>}),
        p \in Opt({<<"0">>, <<"6", "5", "5", "3", "5">>, <<"6", "5", "5", "3", "6">>, <<"x">>, << >>}),
        mp \in Opt({<<" ", "1", "\n">>}),
        sn \in Opt({<< >>}),
        u \in Opt({<< >>, <<"a">>, <<"a", "b">>, <<"1", "a">>}),
        pw \in Opt({<< >>, <<"a", "b", "c", "d", "e">>, <<"a", "b", "c", "d", "e", "f">>, <<"-", "-", "-", "-", "-", "-">>}),
        ct \in Opt({<<"0">>, <<"5">>}),
        qt \in Opt({<<"-", "1">>}),
        mr \in Opt({<<"0">>, <<"1">>, <<"1", "0", "0", "0", "0">>, <<"1", "0", "_", "0", "0", "1">>})}

\* The same for a call made by a tool handler, with the name of the tool.
ToolCallRecord(tool, c, r) ==
    [tool |-> tool, client |-> c, time |-> now, allowed |-> r.allowed,
     pre_requests |-> requests, pre_blocked |-> blocked_clients]

\* ---------------------------------------------------------------- actions

Init ==
    /\ max_requests \in 1..MaxN
    /\ window_seconds \in 1..MaxW
    /\ requests = << >>
    /\ blocked_clients = << >>
    /\ now = 0
    /\ calls = << >>
    /\ run = NoRun
    /\ arg_query = << >>
    /\ verdict = Pending
    /\ status = NoStatus
    /\ tasks = [t \in Tasks |-> Idle]
    /\ arg_table_name = << >>
    /\ environ = << >>
    /\ lookup = NoLookup
    /\ loaded = NotLoaded

\* The clock advances between calls.
Tick ==
    /\ now < MaxTime
    /\ now' = now + 1
    /\ UNCHANGED <<max_requests, window_seconds, requests, blocked_clients, calls,
                   run, arg_query, verdict, status, tasks, arg_table_name, config>>

\* A direct call rate_limiter.is_allowed(c)
IsAllowedCall(c) ==
    /\ Len(calls) < MaxCalls
    /\ LET r == is_allowed(requests, blocked_clients, c, now)
       IN  /\ requests' = r.requests
           /\ blocked_clients' = r.blocked_clients
           /\ calls' = Append(calls, CallRecord(c, r))
    /\ UNCHANGED <<max_requests, window_seconds, now, run, arg_query, verdict,
                   status, tasks, arg_table_name, config>>

\* Mutant: a request the validator rejects gets its unit of quota back.
LimiterAfter_RefundRejected(r, outcome) ==
    IF outcome.allowed /\ ~outcome.valid.accepted
    THEN [requests |-> requests, blocked_clients |-> blocked_clients]
    ELSE [requests |-> r.requests, blocked_clients |-> r.blocked_clients]

\* main.py:829, 849-857, 925-944; 988, 1008-1016  the two dicts after an
\* invocation: is_allowed has run before the validator and before the
\* database, and no return or except clause of the handler touches the limiter
LimiterAfter(r, outcome) ==
    [requests |-> r.requests, blocked_clients |-> r.blocked_clients]

\* The tool query_oracle(q, lim) is invoked; the database answers db.
QueryOracle(q, lim, db) ==
    /\ Len(calls) < MaxCalls
    /\ LET r == is_allowed(requests, blocked_clients, ClientQuery, now)
           outcome == query_oracle(r.allowed, q, lim, db)
       IN  /\ requests' = LimiterAfter(r, outcome).requests
           /\ blocked_clients' = LimiterAfter(r, outcome).blocked_clients
           /\ calls' = Append(calls, ToolCallRecord("query_oracle", ClientQuery, r))
           /\ run' = outcome
    /\ UNCHANGED <<max_requests, window_seconds, now, arg_query, verdict,
                   status, tasks, arg_table_name, config>>

\* The tool describe_table(name) is invoked; the database answers db.
DescribeTable(name, db) ==
    /\ Len(calls) < MaxCalls
    /\ LET r == is_allowed(requests, blocked_clients, ClientDescribe, now)
           outcome == describe_table(r.allowed, name, db)
       IN  /\ requests' = LimiterAfter(r, outcome).requests
           /\ blocked_clients' = LimiterAfter(r, outcome).blocked_clients
           /\ calls' = Append(calls, ToolCallRecord("describe_table", ClientDescribe, r))
           /\ run' = outcome
    /\ UNCHANGED <<max_requests, window_seconds, now, arg_query, verdict,
                   status, tasks, arg_table_name, config>>

\* The RateLimiter on its own, called directly.
Next ==
    \/ Tick
    \/ \E c \in Clients : IsAllowedCall(c)

Spec == Init /\ [][Next]_vars

\* The server: the limiter is reached through the two tools only.
NextTools ==
    \/ Tick
    \/ \E q \in ToolQueries, lim \in ToolLimits, db \in DbOutcomes : QueryOracle(q, lim, db)
    \/ \E name \in ToolTableNames, db \in DbOutcomes : DescribeTable(name, db)

SpecTools == Init /\ [][NextTools]_vars

\* The resource oracle://tables or oracle://views is read; the database answers db.
GetResource(name, db) ==
    /\ run' = get_resource(name, db)
    /\ UNCHANGED <<limiter, arg_query, verdict, status, tasks, arg_table_name, config>>

\* The server with its four handlers and a database that can fail at any point.
NextConnections ==
    \/ \E q \in {Q_Valid, Q_Blocked}, lim \in {-1, 2}, db \in ConnectionOutcomes :
            QueryOracle(q, lim, db)
    \/ \E name \in ToolTableNames, db \in ConnectionOutcomes : DescribeTable(name, db)
    \/ \E name \in Resources, db \in ConnectionOutcomes : GetResource(name, db)

SpecConnections == Init /\ [][NextConnections]_vars

\* The validator alone: validate_query applied to each query of Queries.
InitValidator ==
    /\ max_requests = 1
    /\ window_seconds = 1
    /\ requests = << >>
    /\ blocked_clients = << >>
    /\ now = 0
    /\ calls = << >>
    /\ run = NoRun
    /\ arg_query \in Queries
    /\ verdict = Pending
    /\ status = NoStatus
    /\ tasks = [t \in Tasks |-> Idle]
    /\ arg_table_name = << >>
    /\ environ = << >>
    /\ lookup = NoLookup
    /\ loaded = NotLoaded

ValidateQuery ==
    /\ verdict = Pending
    /\ verdict' = validate_query(arg_query)
    /\ UNCHANGED <<limiter, run, arg_query, status, tasks, arg_table_name, config>>

NextValidator == ValidateQuery

SpecValidator == InitValidator /\ [][NextValidator]_vars

\* The validator alone: validate_table_name applied to each name of TableNames.
InitTableName ==
    /\ max_requests = 1
    /\ window_seconds = 1
    /\ requests = << >>
    /\ blocked_clients = << >>
    /\ now = 0
    /\ calls = << >>
    /\ run = NoRun
    /\ arg_query = << >>
    /\ verdict = Pending
    /\ status = NoStatus
    /\ tasks = [t \in Tasks |-> Idle]
    /\ arg_table_name \in TableNames
    /\ environ = << >>
    /\ lookup = NoLookup
    /\ loaded = NotLoaded

ValidateTableName ==
    /\ verdict = Pending
    /\ verdict' = validate_table_name(arg_table_name)
    /\ UNCHANGED <<limiter, run, arg_query, status, tasks, arg_table_name, config>>

NextTableName == ValidateTableName

SpecTableName == InitTableName /\ [][NextTableName]_vars

\* The validator alone: validate_query applied to each query of ComplexQueries.
InitComplexity ==
    /\ max_requests = 1
    /\ window_seconds = 1
    /\ requests = << >>
    /\ blocked_clients = << >>
    /\ now = 0
    /\ calls = << >>
    /\ run = NoRun
    /\ arg_query \in ComplexQueries
    /\ verdict = Pending
    /\ status = NoStatus
    /\ tasks = [t \in Tasks |-> Idle]
    /\ arg_table_name = << >>
    /\ environ = << >>
    /\ lookup = NoLookup
    /\ loaded = NotLoaded

SpecComplexity == InitComplexity /\ [][NextValidator]_vars

\* The configuration loader alone, in a process started with any environment.
InitConfig ==
    /\ max_requests = 1
    /\ window_seconds = 1
    /\ requests = << >>
    /\ blocked_clients = << >>
    /\ now = 0
    /\ calls = << >>
    /\ run = NoRun
    /\ arg_query = << >>
    /\ verdict = Pending
    /\ status = NoStatus
    /\ tasks = [t \in Tasks |-> Idle]
    /\ arg_table_name = << >>
    /\ environ \in Environments
    /\ lookup = NoLookup
    /\ loaded = NotLoaded

\* loader.get_value_with_source(key)
GetValueWithSource(key) ==
    /\ lookup' = [key |-> key] @@ get_value_with_source(key)
    /\ UNCHANGED <<limiter, run, arg_query, verdict, status, tasks, arg_table_name, environ,
                   loaded>>

NextConfig == \E key \in ConfigKeys : GetValueWithSource(key)

SpecConfig == InitConfig /\ [][NextConfig]_vars

\* The loader alone, in a process started with an environment of
\* LoadEnvironments.
InitLoad ==
    /\ max_requests = 1
    /\ window_seconds = 1
    /\ requests = << >>
    /\ blocked_clients = << >>
    /\ now = 0
    /\ calls = << >>
    /\ run = NoRun
    /\ arg_query = << >>
    /\ verdict = Pending
    /\ status = NoStatus
    /\ tasks = [t \in Tasks |-> Idle]
    /\ arg_table_name = << >>
    /\ environ \in LoadEnvironments
    /\ lookup = NoLookup
    /\ loaded = NotLoaded

\* loader.load_config()
LoadConfig ==
    /\ loaded = NotLoaded
    /\ loaded' = load_config
    /\ UNCHANGED <<limiter, run, arg_query, verdict, status, tasks, arg_table_name, environ,
                   lookup>>

NextLoad == LoadConfig

SpecLoad == InitLoad /\ [][NextLoad]_vars

\* rate_limiter.get_client_status(c)
GetClientStatus(c) ==
    /\ LET left == StatusLeaves(requests, blocked_clients, c, now)
       IN  /\ requests' = left.requests
           /\ blocked_clients' = left.blocked_clients
    /\ status' = StatusRecord(c, get_client_status(requests, blocked_clients, c, now))
    /\ UNCHANGED <<max_requests, window_seconds, now, calls, run, arg_query, verdict,
                   tasks, arg_table_name, config>>

\* The RateLimiter called directly, is_allowed and get_client_status in any order.
NextStatus ==
    \/ Tick
    \/ \E c \in Clients : IsAllowedCall(c)
    \/ \E c \in Clients : GetClientStatus(c)

SpecStatus == Init /\ [][NextStatus]_vars

\* The handlers as coroutines.  A task that is invoked runs its first segment
\* at once: client_id, is_allowed, the validator, the row limit.  If it is not
\* turned away it stops at `async with get_connection()`.
Invoke(t, tool) ==
    /\ tasks[t] = Idle
    /\ Len(calls) < MaxCalls
    /\ LET c == ClientIdOf(tool)
           r == is_allowed(LimiterDicts.requests, LimiterDicts.blocked_clients, c, now)
           outcomes ==
               IF tool = "query_oracle"
               THEN {query_oracle(r.allowed, q, lim, "ok") : q \in ToolQueries, lim \in ToolLimits}
               ELSE {describe_table(r.allowed, n, "ok") : n \in ToolTableNames}
       IN  /\ requests' = r.requests
           /\ blocked_clients' = r.blocked_clients
           /\ calls' = Append(calls, ToolCallRecord(tool, c, r))
           /\ \E o \in outcomes :
                  tasks' = [tasks EXCEPT ![t] =
                      IF "connect" \in Range(o.steps)
                      THEN [pc |-> "entering", tool |-> tool]
                      ELSE Idle]
    /\ UNCHANGED <<max_requests, window_seconds, now, run, arg_query, verdict,
                   status, arg_table_name, config>>

\* main.py:876, 1021  __aenter__ of get_connection and the body of the
\* `async with`: connect, execute, fetch, with no await between them.  A failed
\* connect raises out of the handler's try block and the handler returns.
EnterConnection(t, db) ==
    /\ tasks[t].pc = "entering"
    /\ tasks' = [tasks EXCEPT ![t] =
           IF db = "connect_error" THEN Idle ELSE [@ EXCEPT !.pc = "leaving"]]
    /\ UNCHANGED <<limiter, run, arg_query, verdict, status, arg_table_name, config>>

\* main.py:711-718  __aexit__ of get_connection: close, then the handler returns
LeaveConnection(t) ==
    /\ tasks[t].pc = "leaving"
    /\ tasks' = [tasks EXCEPT ![t] = Idle]
    /\ UNCHANGED <<limiter, run, arg_query, verdict, status, arg_table_name, config>>

\* The server with several tool invocations in flight, interleaved at their awaits.
NextConcurrent ==
    \/ Tick
    \/ \E t \in Tasks, tool \in Tools : Invoke(t, tool)
    \/ \E t \in Tasks, db \in DbOutcomes : EnterConnection(t, db)
    \/ \E t \in Tasks : LeaveConnection(t)

SpecConcurrent == Init /\ [][NextConcurrent]_vars

\* ------------------------------------------------- history of the limiter

CallsOf(c) == SelectSeq(calls, LAMBDA e : e.client = c)
Verdicts(s) == [k \in 1..Len(s) |-> s[k].allowed]
Last == calls[Len(calls)]

\* The calls of c that fall in the window its first call opened.
FirstWindow(c) ==
    LET s == CallsOf(c)
    IN  SelectSeq(s, LAMBDA e : e.time < s[1].time + window_seconds)

\* The verdicts a limiter starting empty gives to the calls s, one after another.
RECURSIVE RunAlone(_, _, _)
RunAlone(s, req, blk) ==
    IF s = << >> THEN << >>
    ELSE LET r == is_allowed(req, blk, Head(s).client, Head(s).time)
         IN  <<r.allowed>> \o RunAlone(Tail(s), r.requests, r.blocked_clients)

\* The block of e's caller was still running when e was made.
BlockActive(e) ==
    e.client \in DOMAIN e.pre_blocked /\ e.time < e.pre_blocked[e.client]
\* The caller of e had a window entry that was not yet expired.
WindowLive(e) ==
    /\ e.client \in DOMAIN e.pre_requests
    /\ e.time - e.pre_requests[e.client].first_request < window_seconds

\* Accepted calls of c at times in the closed interval [a, a + window_seconds].
AcceptedIn(c, a) ==
    Cardinality({i \in 1..Len(calls) :
        /\ calls[i].client = c /\ calls[i].allowed
        /\ a <= calls[i].time /\ calls[i].time <= a + window_seconds})

\* ------------------------------------------------------------------ claims

\* C1: for one client starting with no state, the first max_requests calls made
\* inside the window opened by its first call are accepted and every further
\* call made before window_start + window_seconds is rejected, whatever the
\* spacing of the calls.
C1_FirstWindowQuota ==
    \A c \in Clients :
        LET w == FirstWindow(c)
        IN  \A k \in 1..Len(w) : w[k].allowed = (k <= max_requests)

\* C1 witness: a client made at least max_requests + 2 calls inside its first
\* window, spread over more than one instant.
C1_Witness ==
    \E c \in Clients :
        LET w == FirstWindow(c)
        IN  /\ Len(w) >= max_requests + 2
            /\ w[Len(w)].time > w[1].time

\* C2: the verdicts a client receives in an interleaving with another client
\* are the verdicts it receives when the other client's calls are removed.
C2_ClientIndependence ==
    \A c \in Clients :
        Verdicts(CallsOf(c)) = RunAlone(CallsOf(c), << >>, << >>)

\* C2 witness: another client's call swept c's expired window and was itself
\* rejected at some point, and c called again afterwards.
C2_Witness ==
    \E i, j, k \in 1..Len(calls) :
        /\ i < j /\ j < k
        /\ calls[i].client = calls[k].client
        /\ calls[j].client # calls[i].client
        /\ calls[i].client \in DOMAIN calls[j].pre_requests
        /\ calls[j].allowed
        /\ calls[i].client \notin DOMAIN calls[k].pre_requests
        /\ \E m \in 1..Len(calls) : calls[m].client = calls[j].client /\ ~calls[m].allowed

\* C3: the first call of a blocked client at a time now >= blocked_until is
\* accepted, removes the blocked entry and leaves a fresh window entry with
\* count = 1 and window_start = now.
C3_FreshWindowAfterBlock ==
    calls # << >> =>
        LET e == Last
            c == e.client
        IN  (c \in DOMAIN e.pre_blocked /\ e.time >= e.pre_blocked[c]) =>
                /\ e.allowed
                /\ c \notin DOMAIN blocked_clients
                /\ c \in DOMAIN requests
                /\ requests[c].count = 1
                /\ requests[c].first_request = e.time

\* C3 witness: a call found an expired block while the old window entry, with
\* its count at the limit, was still stored.
C3_Witness ==
    /\ calls # << >>
    /\ Last.client \in DOMAIN Last.pre_blocked
    /\ Last.time >= Last.pre_blocked[Last.client]
    /\ Last.client \in DOMAIN Last.pre_requests
    /\ Last.pre_requests[Last.client].count = max_requests

\* Every stored window entry has a count between 1 and max_requests.
CountInRange ==
    \A c \in DOMAIN requests :
        1 <= requests[c].count /\ requests[c].count <= max_requests

\* C7 (as stated): every window entry has 1 <= count <= max_requests, and a
\* call made when count = max_requests is rejected and leaves count unchanged.
C7_Original ==
    /\ CountInRange
    /\ calls # << >> =>
        LET e == Last
            c == e.client
        IN  (c \in DOMAIN e.pre_requests /\ e.pre_requests[c].count = max_requests) =>
                /\ ~e.allowed
                /\ c \in DOMAIN requests
                /\ requests[c].count = max_requests

\* C7 (amended): every window entry has 1 <= count <= max_requests, and a call
\* made when count = max_requests while that window is still live
\* (now - window_start < window_seconds) is rejected and leaves the entry unchanged.
C7_CountBounded ==
    /\ CountInRange
    /\ calls # << >> =>
        LET e == Last
            c == e.client
        IN  (WindowLive(e) /\ e.pre_requests[c].count = max_requests) =>
                /\ ~e.allowed
                /\ c \in DOMAIN requests
                /\ requests[c] = e.pre_requests[c]

\* C7 witness: a call found a live window at the limit before any block
\* existed for its client.
C7_Witness ==
    /\ calls # << >>
    /\ WindowLive(Last)
    /\ Last.pre_requests[Last.client].count = max_requests
    /\ Last.client \notin DOMAIN Last.pre_blocked
    /\ max_requests > 1

\* C8: a blocked entry created by a call equals window_start + window_seconds
\* of the window whose limit was exceeded, so it lies strictly after the
\* rejected call and at most window_seconds after it.
C8_BlockedUntilFromWindowStart ==
    calls # << >> =>
        LET e == Last
            c == e.client
        IN  (~e.allowed /\ ~BlockActive(e)) =>
                /\ c \in DOMAIN blocked_clients
                /\ c \in DOMAIN e.pre_requests
                /\ blocked_clients[c] = e.pre_requests[c].first_request + window_seconds
                /\ blocked_clients[c] > e.time
                /\ blocked_clients[c] <= e.time + window_seconds

\* C8 witness: a block was created by a call made later than the first
\* request of its window.
C8_Witness ==
    /\ calls # << >>
    /\ ~Last.allowed /\ ~BlockActive(Last)
    /\ Last.client \in DOMAIN Last.pre_requests
    /\ Last.time > Last.pre_requests[Last.client].first_request

\* C9: a call of a client whose block is still running (blocked_until > now)
\* is rejected and leaves the window map and the blocked map as they were.
C9_BlockedCallChangesNothing ==
    calls # << >> =>
        (BlockActive(Last) =>
            /\ ~Last.allowed
            /\ requests = Last.pre_requests
            /\ blocked_clients = Last.pre_blocked)

\* C9 witness: a blocked client called while the window map held an expired
\* entry of another client.
C9_Witness ==
    /\ calls # << >>
    /\ BlockActive(Last)
    /\ \E d \in DOMAIN Last.pre_requests :
        /\ d # Last.client
        /\ Last.time - Last.pre_requests[d].first_request >= window_seconds

\* C10: for one client, the accepted calls inside any interval of length
\* window_seconds (taken closed, [a, a + window_seconds]) never number more
\* than 2 * max_requests.
C10_AtMostTwiceQuota ==
    \A c \in Clients : \A a \in 0..MaxTime :
        AcceptedIn(c, a) <= 2 * max_requests

\* C10 witness: two windows straddle one interval, which then holds more
\* accepted calls than one window's quota, with max_requests > 1.
C10_Witness ==
    \E c \in Clients : \E a \in 0..MaxTime :
        /\ AcceptedIn(c, a) = 2 * max_requests
        /\ max_requests > 1

\* --------------------------------------------- claims about the tool handlers

HasStep(name) == \E i \in 1..Len(run.steps) : run.steps[i] = name
StepIndex(name) == CHOOSE i \in 1..Len(run.steps) : run.steps[i] = name
ValidatorOf(tool) ==
    IF tool = "query_oracle" THEN "validate_query" ELSE "validate_table_name"

\* C4: in query_oracle and in describe_table the steps run in the order rate
\* limiter, validator, database: a connection is opened and a statement
\* executed only after is_allowed accepted and then the validator accepted; a
\* rate-limited invocation never reaches the validator and an invocation the
\* validator rejected never opens a connection.
C4_AdmissionOrder ==
    run.tool # "none" =>
        /\ run.steps[1] = "is_allowed"
        /\ run.allowed = Last.allowed
        /\ (HasStep("connect") \/ HasStep("execute")) =>
                /\ Last.allowed
                /\ HasStep(ValidatorOf(run.tool))
                /\ run.valid.accepted
                /\ StepIndex("is_allowed") < StepIndex(ValidatorOf(run.tool))
                /\ StepIndex(ValidatorOf(run.tool)) < StepIndex("connect")
        /\ HasStep("execute") =>
                HasStep("connect") /\ StepIndex("connect") < StepIndex("execute")
        /\ ~Last.allowed => run.steps = <<"is_allowed">>
        /\ (HasStep(ValidatorOf(run.tool)) /\ ~run.valid.accepted) =>
                ~HasStep("connect") /\ ~HasStep("execute")

\* C4 witness: an invocation of query_oracle went through all three steps and
\* executed a row-limited statement, after the limiter had rejected an earlier call.
C4_Witness ==
    /\ run.tool = "query_oracle"
    /\ HasStep("execute")
    /\ run.statement.wrapped
    /\ \E i \in 1..Len(calls) : ~calls[i].allowed

\* ------------------------------------------------ claims about the validator

Validated == verdict # Pending
SelectLetters == << {"S","s"}, {"E","e"}, {"L","l"}, {"E","e"}, {"C","c"}, {"T","t"} >>
\* q starts with SELECT once leading whitespace is dropped, in any letter case
StartsWithSelectTrimmed(q) ==
    \E p \in 1..Len(q) :
        /\ \A r \in 1..(p - 1) : q[r] \in {" ", "\n", "\t"}
        /\ p + 5 <= Len(q)
        /\ \A i \in 1..6 : q[p + i - 1] \in SelectLetters[i]
HasSemicolon(q) == \E p \in 1..Len(q) : q[p] = ";"
IsBlank(q) == \A p \in 1..Len(q) : q[p] \in {" ", "\n", "\t"}

\* C5 (as stated): an accepted string starts, trimmed and ignoring case, with
\* SELECT and has no semicolon; every non-empty string that does not start
\* with SELECT is rejected with "Only SELECT queries are allowed"; every SELECT
\* string with a semicolon is rejected.
C5_Original ==
    Validated =>
        /\ verdict.accepted =>
                StartsWithSelectTrimmed(arg_query) /\ ~HasSemicolon(arg_query)
        /\ (arg_query # << >> /\ ~StartsWithSelectTrimmed(arg_query)) =>
                ~verdict.accepted /\ verdict.message = "Only SELECT queries are allowed"
        /\ (StartsWithSelectTrimmed(arg_query) /\ HasSemicolon(arg_query)) =>
                ~verdict.accepted

\* C5 (amended): as C5, with "non-empty" read after trimming: every string that
\* is not blank and does not start with SELECT is rejected with "Only SELECT
\* queries are allowed" (a blank one is rejected with "Query cannot be empty").
C5_SelectOnlyNoSemicolon ==
    Validated =>
        /\ verdict.accepted =>
                StartsWithSelectTrimmed(arg_query) /\ ~HasSemicolon(arg_query)
        /\ (~IsBlank(arg_query) /\ ~StartsWithSelectTrimmed(arg_query)) =>
                ~verdict.accepted /\ verdict.message = "Only SELECT queries are allowed"
        /\ IsBlank(arg_query) =>
                ~verdict.accepted /\ verdict.message = "Query cannot be empty"
        /\ (StartsWithSelectTrimmed(arg_query) /\ HasSemicolon(arg_query)) =>
                ~verdict.accepted

\* C5 witness: a query in lower case with leading whitespace was accepted.
C5_Witness ==
    /\ Validated
    /\ verdict.accepted
    /\ arg_query[1] = " "
    /\ \E p \in 1..Len(arg_query) : arg_query[p] = "s"

\* the literal w, in any letter case, at position p of q
AtAnyCase(q, w, p) ==
    /\ p + Len(w) - 1 <= Len(q)
    /\ \A i \in 1..Len(w) : q[p + i - 1] \in {w[i], LowerChar(w[i])}
WholeWordAnyCase(q, words, p) ==
    \E w \in words : WB(q, p) /\ AtAnyCase(q, w, p) /\ WB(q, p + Len(w))
HasVerb(q) == \E p \in 1..Len(q) : WholeWordAnyCase(q, DmlDdlVerbs, p)
HasLineComment(q) == \E p \in 1..Len(q) : At(q, <<"-", "-">>, p)
HasBlockComment(q) ==
    \E p \in 1..Len(q) : \E r \in (p + 2)..Len(q) :
        At(q, <<"/", "*">>, p) /\ At(q, <<"*", "/">>, r)
HasUnionSelect(q) ==
    \E p \in 1..Len(q) : \E r \in (p + 5)..Len(q) :
        WholeWordAnyCase(q, {W_UNION}, p) /\ WholeWordAnyCase(q, {W_SELECT}, r)

\* C6: a string that contains, in any letter case, one of the nine DML/DDL
\* verbs as a whole word, or "--", or "/*" followed by "*/", or the word UNION
\* followed later by the word SELECT, is rejected, wherever the construct is
\* and even when the string starts with SELECT.
C6_DangerousConstructsRejected ==
    Validated =>
        ((HasVerb(arg_query) \/ HasLineComment(arg_query) \/ HasBlockComment(arg_query)
            \/ HasUnionSelect(arg_query)) => ~verdict.accepted)

\* C6 witness: a query that starts with SELECT and has a verb, not all in upper
\* case, as a whole word was rejected for the first blocked pattern.
C6_Witness ==
    /\ Validated
    /\ StartsWithSelectTrimmed(arg_query)
    /\ HasVerb(arg_query)
    /\ ~HasWholeWord(arg_query, DmlDdlVerbs)
    /\ ~verdict.accepted
    /\ verdict.pattern = 1

\* --------------------------------------------------- claims C11 to C20

\* An entry of the window map whose window is still running at time t.
LiveAt(req, k, t) == k \in DOMAIN req /\ t - req[k].first_request < window_seconds

BlockedNow(c) == c \in DOMAIN blocked_clients /\ blocked_clients[c] > now

\* C12: in every reachable state, at the current time and for every client,
\* get_client_status reports blocked = true exactly when the client has a
\* blocked entry with blocked_until > now; when the client is not so blocked
\* and has a window entry with now - window_start < window_seconds it reports
\* the stored count as requests_used; in every other case it reports a fresh
\* client (blocked = false, requests_used = 0, requests_remaining =
\* max_requests), whatever expired entries are still stored.  The three cases
\* are the ones is_allowed distinguishes: a blocked report goes with a call
\* refused without a change, a fresh report with a call that opens a window.
C12_StatusUsesExpiry ==
    \A c \in Clients :
        LET report == get_client_status(requests, blocked_clients, c, now)
            live == ~BlockedNow(c) /\ LiveAt(requests, c, now)
            fresh == ~BlockedNow(c) /\ ~live
            r == is_allowed(requests, blocked_clients, c, now)
        IN  /\ report.blocked = BlockedNow(c)
            /\ live => report.requests_used = requests[c].count
            /\ fresh => /\ report.requests_used = 0
                        /\ report.requests_remaining = max_requests
            /\ BlockedNow(c) =>
                   ~r.allowed /\ r.requests = requests /\ r.blocked_clients = blocked_clients
            /\ fresh =>
                   /\ r.allowed
                   /\ r.requests[c] = [count |-> 1, first_request |-> now, last_request |-> now]
            /\ live => r.requests[c].first_request = requests[c].first_request

\* C12 witness: get_client_status has just reported a fresh client while both
\* an expired window entry and an expired block of that client are stored.
C12_Witness ==
    /\ status # NoStatus
    /\ status.at = Len(calls) /\ status.time = now
    /\ status.client \in DOMAIN requests
    /\ status.client \in DOMAIN blocked_clients
    /\ ~status.report.blocked
    /\ status.report.requests_used = 0
    /\ status.report.requests_remaining = max_requests

\* C13: get_client_status is read-only.  A step that records a status call
\* leaves the window map and the blocked map as they were, and the verdicts of
\* the is_allowed calls of a behaviour with status calls in it are the verdicts
\* the same is_allowed calls get with no status call between them.
C13_StatusReadOnly ==
    /\ [][status' # status =>
              requests' = requests /\ blocked_clients' = blocked_clients]_vars
    /\ [](Verdicts(calls) = RunAlone(calls, << >>, << >>))

\* C13 witness: a status call was made while an expired window entry was
\* stored, and the is_allowed call that came next still found that entry.
C13_Witness ==
    /\ status # NoStatus
    /\ Len(calls) > status.at
    /\ LET next == calls[status.at + 1]
       IN  \E k \in DOMAIN next.pre_requests :
               status.time - next.pre_requests[k].first_request >= window_seconds

\* The last is_allowed call returned at the check of a block still running.
ReturnedAtBlockCheck(e) == BlockActive(e)

\* C20 as stated: after any is_allowed call, whoever made it and whatever it
\* returned, no entry of the window map has now - window_start >= window_seconds.
C20_Original ==
    (calls # << >> /\ Last.time = now) =>
        \A k \in DOMAIN requests : now - requests[k].first_request < window_seconds

\* C20, amended: the sweep runs on every is_allowed call that gets past the
\* check of a running block.  After such a call no entry of the window map, of
\* any client, has now - window_start >= window_seconds; a call refused at the
\* block check returns before the sweep and leaves the expired entries of
\* other clients stored.
C20_SweepUnlessBlocked ==
    (calls # << >> /\ Last.time = now /\ ~ReturnedAtBlockCheck(Last)) =>
        \A k \in DOMAIN requests : now - requests[k].first_request < window_seconds

\* C20 witness: a call that was not refused at the block check has just swept
\* the expired entry of another client.
C20_Witness ==
    /\ calls # << >> /\ Last.time = now
    /\ ~ReturnedAtBlockCheck(Last)
    /\ \E k \in DOMAIN Last.pre_requests :
           /\ k # Last.client
           /\ Last.time - Last.pre_requests[k].first_request >= window_seconds
           /\ k \notin DOMAIN requests

\* Accepted calls of c, from call i on, made before the window that call i
\* opened at its own time has run out.
AcceptedInWindowOf(i) ==
    Cardinality({j \in i..Len(calls) :
        /\ calls[j].client = calls[i].client /\ calls[j].allowed
        /\ calls[j].time < calls[i].time + window_seconds})

\* Call i was accepted and created the window entry of its client.
OpensWindow(i) ==
    /\ calls[i].allowed
    /\ ~LiveAt(calls[i].pre_requests, calls[i].client, calls[i].time)

\* C14: with tool invocations in flight together and interleaved only at their
\* awaits, every is_allowed call acts on the dicts as the call before it left
\* them: the verdicts are those of the same calls made one after another, no
\* window admits more than max_requests requests of one client, and no count
\* goes above max_requests.
C14_AtomicAdmission ==
    /\ Verdicts(calls) = RunAlone(calls, << >>, << >>)
    /\ \A i \in 1..Len(calls) : OpensWindow(i) => AcceptedInWindowOf(i) <= max_requests
    /\ \A c \in DOMAIN requests : requests[c].count <= max_requests

\* C14 witness: while one invocation is suspended inside its handler, later
\* invocations of the same tool have used up the window it opened and the last
\* of them has been refused.
C14_Witness ==
    /\ calls # << >> /\ ~Last.allowed
    /\ \E t \in Tasks :
           /\ tasks[t].pc \in {"entering", "leaving"}
           /\ ClientIdOf(tasks[t].tool) = Last.client
    /\ \E i \in 1..Len(calls) :
           /\ OpensWindow(i) /\ calls[i].client = Last.client
           /\ Last.time < calls[i].time + window_seconds
           /\ AcceptedInWindowOf(i) = max_requests
           /\ max_requests > 1

\* The is_allowed calls that the handler of one tool made.
ToolCalls(tool) == SelectSeq(calls, LAMBDA e : e.tool = tool)

\* C15: within one session query_oracle and describe_table have independent
\* quotas.  Every call of a handler is made under the client id of its tool
\* (session id plus operation name), and the verdicts each tool gets are the
\* verdicts its own invocations would get if the other tool were never invoked:
\* no rejection of one is caused by the other, and each has its own
\* max_requests per window.
C15_IndependentQuotas ==
    /\ \A i \in 1..Len(calls) : calls[i].client = ClientIdOf(calls[i].tool)
    /\ \A tool \in Tools :
           /\ Verdicts(ToolCalls(tool)) = RunAlone(ToolCalls(tool), << >>, << >>)
           /\ \A i \in 1..Len(calls) :
                  (calls[i].tool = tool /\ OpensWindow(i)) =>
                      AcceptedInWindowOf(i) <= max_requests

\* C15 witness: query_oracle has used its quota and is blocked, and an
\* invocation of describe_table made during that block has just been admitted,
\* its own quota being used up in the same window as well.
C15_Witness ==
    /\ BlockedNow(ClientQuery)
    /\ LiveAt(requests, ClientQuery, now) /\ requests[ClientQuery].count = max_requests
    /\ run.tool = "describe_table" /\ run.allowed
    /\ calls # << >> /\ Last.time = now /\ Last.tool = "describe_table"
    /\ ClientQuery \in DOMAIN Last.pre_blocked /\ Last.time < Last.pre_blocked[ClientQuery]
    /\ requests[ClientDescribe].count = max_requests

\* The identifier grammar: a letter or underscore, then letters, digits,
\* underscore, '#' or '$'.
IsLetter(ch) == ch \in Range(LowerLetters) \cup Range(UpperLetters)
FollowsGrammar(name) ==
    /\ name # << >>
    /\ IsLetter(name[1]) \/ name[1] = "_"
    /\ \A i \in 2..Len(name) :
           IsLetter(name[i]) \/ name[i] \in Digits \cup {"_", "#", "$"}
\* The name contains, in any letter case, one of the ten reserved substrings.
HasReserved(name) ==
    \E r \in Range(ReservedWords), p \in 1..Len(name) : AtAnyCase(name, r, p)
\* A name that follows the grammar up to one line feed that ends it.
EndsWithNewline(name) == Len(name) >= 2 /\ name[Len(name)] = "\n"
FollowsGrammarBeforeNewline(name) ==
    EndsWithNewline(name) /\ FollowsGrammar(SubSeq(name, 1, Len(name) - 1))

Occurrences(q, w) == Cardinality({p \in 1..Len(q) : At(q, w, p)})

\* C17: every query accepted by validate_query is within all four structural
\* bounds at once: at most 15 '(' characters, at most 8 occurrences of SELECT,
\* at most 10 occurrences of JOIN (the literal upper-case texts, in the query as
\* given) and at most 5000 characters; so a query past any one bound is
\* rejected.  The query SELECT ((..1..)) with 15 parentheses is accepted, with
\* 16 it is rejected with the reason 'Too many parentheses'.
C17_WithinStructuralBounds ==
    verdict # Pending =>
        /\ verdict.accepted =>
               /\ Occurrences(arg_query, <<"(">>) <= 15
               /\ Occurrences(arg_query, W_SELECT) <= 8
               /\ Occurrences(arg_query, W_JOIN) <= 10
               /\ Len(arg_query) <= 5000
        /\ arg_query = ParenQuery(15) => verdict.accepted
        /\ arg_query = ParenQuery(16) =>
               verdict = Verdict(FALSE, "Query too complex: Too many parentheses", 0)

\* C17 witness: a query at all three counting limits at once (8 SELECT, 15
\* parentheses, 10 JOIN) has been accepted.
C17_Witness ==
    /\ verdict # Pending
    /\ verdict.accepted
    /\ Occurrences(arg_query, <<"(">>) = 15
    /\ Occurrences(arg_query, W_SELECT) = 8
    /\ Occurrences(arg_query, W_JOIN) = 10

\* The text of the query mentions ROWNUM, in any letter case.
MentionsRownumAnyCase(q) == \E p \in 1..Len(q) : AtAnyCase(q, W_ROWNUM, p)
\* The last invocation was of query_oracle and got as far as cursor.execute.
Executed == run.tool = "query_oracle" /\ HasStep("execute")

InMcpEnv(key) == (McpPrefix \o key) \in DOMAIN environ
InPlainEnv(key) == key \in DOMAIN environ
InDefaults(key) == key \in DOMAIN Defaults

\* C19: configuration precedence.  For the key last looked up,
\* get_value_with_source returned the value of the MCP_-prefixed environment
\* variable if there is one, else that of the plain environment variable if
\* there is one, both under the name of the environment source, else the
\* built-in default under the name of the default source; and it returned
\* (None, None) exactly when none of the three defines the key.
C19_ConfigPrecedence ==
    lookup # NoLookup =>
        LET key == lookup.key
        IN  /\ InMcpEnv(key) =>
                   lookup.value = <<environ[McpPrefix \o key]>> /\ lookup.source = <<MCPSourceName>>
            /\ (~InMcpEnv(key) /\ InPlainEnv(key)) =>
                   lookup.value = <<environ[key]>> /\ lookup.source = <<MCPSourceName>>
            /\ (~InMcpEnv(key) /\ ~InPlainEnv(key) /\ InDefaults(key)) =>
                   lookup.value = <<Defaults[key]>> /\ lookup.source = <<DefaultSourceName>>
            /\ (lookup.value = << >> /\ lookup.source = << >>)
                   <=> (~InMcpEnv(key) /\ ~InPlainEnv(key) /\ ~InDefaults(key))
            /\ lookup.value = << >> <=> lookup.source = << >>

\* C19 witness: the key has a default, a plain variable and an MCP_-prefixed
\* variable with three different values, and the MCP_ one was returned.
C19_Witness ==
    /\ lookup # NoLookup
    /\ InMcpEnv(lookup.key) /\ InPlainEnv(lookup.key) /\ InDefaults(lookup.key)
    /\ environ[McpPrefix \o lookup.key] # environ[lookup.key]
    /\ environ[McpPrefix \o lookup.key] = << >>
    /\ lookup.value = << << >> >>

\* --------------------------------------------------- claims C21 to C30

\* C27: no client is rejected outside a live, exhausted window.  If the last
\* is_allowed call was rejected, its caller had a window entry with
\* now - window_start < window_seconds and count = max_requests; so a call by
\* a client with no window entry, or at a time >= window_start +
\* window_seconds, is accepted, and so is the call of a client whose block was
\* set at least window_seconds earlier and who was not admitted since.
C27_RejectedOnlyInLiveFullWindow ==
    calls # << >> =>
        /\ ~Last.allowed =>
               /\ LiveAt(Last.pre_requests, Last.client, Last.time)
               /\ Last.pre_requests[Last.client].count = max_requests
        /\ ~LiveAt(Last.pre_requests, Last.client, Last.time) => Last.allowed
        /\ \A i \in 1..(Len(calls) - 1) :
               (/\ calls[i].client = Last.client
                /\ ~calls[i].allowed
                /\ \A j \in (i + 1)..(Len(calls) - 1) :
                       calls[j].client = Last.client => ~calls[j].allowed
                /\ Last.time >= calls[i].time + window_seconds) => Last.allowed

\* C27 witness: a client that was refused calls again window_seconds later,
\* with its block and its window entry still stored, and is admitted.
C27_Witness ==
    /\ Len(calls) >= 2
    /\ Last.allowed
    /\ Last.client \in DOMAIN Last.pre_blocked
    /\ Last.client \in DOMAIN Last.pre_requests
    /\ \E i \in 1..(Len(calls) - 1) :
           /\ calls[i].client = Last.client /\ ~calls[i].allowed
           /\ Last.time >= calls[i].time + window_seconds

\* C28: in every reachable state, a client with a blocked entry that has not
\* run out (blocked_until > now) also has a window entry, with count =
\* max_requests and window_start + window_seconds = blocked_until; the sweeps
\* that the calls of other clients run never remove it.
C28_BlockedHasFullWindow ==
    \A c \in DOMAIN blocked_clients :
        blocked_clients[c] > now =>
            /\ c \in DOMAIN requests
            /\ requests[c].count = max_requests
            /\ requests[c].first_request + window_seconds = blocked_clients[c]

\* C28 witness: another client has just called, and swept an expired entry,
\* while a block was running; the blocked client still has its window entry.
C28_Witness ==
    /\ calls # << >> /\ Last.time = now
    /\ \E c \in DOMAIN blocked_clients :
           /\ blocked_clients[c] > now
           /\ c # Last.client
           /\ c \in DOMAIN Last.pre_blocked
           /\ c \in DOMAIN requests
    /\ Last.allowed
    /\ Last.client \in DOMAIN Last.pre_requests
    /\ ~LiveAt(Last.pre_requests, Last.client, Last.time)

\* C29: get_client_status predicts is_allowed.  In every reachable state and
\* for every client, the status computed at the current time reports
\* requests_remaining > 0 exactly when an is_allowed call made at that time
\* would be accepted, and requests_used + requests_remaining = max_requests;
\* the same holds for the report the last get_client_status call returned, as
\* long as no is_allowed call and no tick has followed it.
C29_StatusPredictsAdmission ==
    /\ \A c \in Clients :
           LET report == get_client_status(requests, blocked_clients, c, now)
           IN  /\ (report.requests_remaining > 0)
                      <=> is_allowed(requests, blocked_clients, c, now).allowed
               /\ report.requests_used + report.requests_remaining = max_requests
    /\ (status # NoStatus /\ status.at = Len(calls) /\ status.time = now) =>
           /\ (status.report.requests_remaining > 0)
                  <=> is_allowed(requests, blocked_clients, status.client, now).allowed
           /\ status.report.requests_used + status.report.requests_remaining
                  = max_requests

\* C29 witness: get_client_status has just reported, for a client that is not
\* blocked, a live window with nothing remaining, and a call would be refused.
C29_Witness ==
    /\ status # NoStatus /\ status.at = Len(calls) /\ status.time = now
    /\ ~status.report.blocked
    /\ status.report.requests_remaining = 0
    /\ status.report.requests_used = max_requests
    /\ max_requests > 1
    /\ ~is_allowed(requests, blocked_clients, status.client, now).allowed

\* C30: the frame of is_allowed across clients.  After any is_allowed call,
\* for every client d other than the caller: d has a blocked entry exactly if
\* it had one before, with the same value (so an expired blocked entry of d
\* stays stored); a window entry of d that is stored after the call is the
\* entry stored before it, unchanged; and a window entry of d that is gone had
\* now - window_start >= window_seconds.
C30_FrameAcrossClients ==
    calls # << >> =>
        \A d \in Clients \ {Last.client} :
            /\ (d \in DOMAIN blocked_clients) <=> (d \in DOMAIN Last.pre_blocked)
            /\ d \in DOMAIN blocked_clients =>
                   blocked_clients[d] = Last.pre_blocked[d]
            /\ d \in DOMAIN requests =>
                   /\ d \in DOMAIN Last.pre_requests
                   /\ requests[d] = Last.pre_requests[d]
            /\ (d \in DOMAIN Last.pre_requests /\ d \notin DOMAIN requests) =>
                   Last.time - Last.pre_requests[d].first_request >= window_seconds

\* C30 witness: the call of one client has swept the expired window entry of
\* another client, whose expired blocked entry is still stored after it.
C30_Witness ==
    /\ calls # << >>
    /\ \E d \in Clients \ {Last.client} :
           /\ d \in DOMAIN Last.pre_requests
           /\ d \notin DOMAIN requests
           /\ d \in DOMAIN blocked_clients
           /\ blocked_clients[d] <= Last.time

\* The number of is_allowed calls the last invocation made.
IsAllowedSteps == Cardinality({i \in 1..Len(run.steps) : run.steps[i] = "is_allowed"})
\* The count the caller of the last call has in a window that is still running.
UnitsBefore ==
    IF LiveAt(Last.pre_requests, Last.client, Last.time)
    THEN Last.pre_requests[Last.client].count ELSE 0
\* A valid request of the tool, made in the current state.
ValidRequestNow(tool) ==
    LET allowed == is_allowed(requests, blocked_clients, ClientIdOf(tool), now).allowed
    IN  IF tool = "query_oracle"
        THEN query_oracle(allowed, Q_Valid, 2, "ok")
        ELSE describe_table(allowed, <<"x">>, "ok")

UpperCased(q) == [i \in 1..Len(q) |-> UpperChar(q[i])]

\* C21 as stated: validate_query accepts a query exactly when it accepts the
\* query written in upper case.
C21_Original ==
    Validated => (verdict.accepted <=> validate_query(UpperCased(arg_query)).accepted)

\* C21, amended: if validate_query accepts the query written in upper case it
\* accepts the query as typed; the converse holds when the upper-case text
\* holds at most 8 SELECT and at most 10 JOIN, and a query that is accepted
\* while its upper-case form is rejected has its upper-case form rejected for
\* too many SELECT statements or too many JOIN operations.
C21_UpperCaseAcceptedImpliesAccepted ==
    Validated =>
        LET upper == validate_query(UpperCased(arg_query))
        IN  /\ upper.accepted => verdict.accepted
            /\ (/\ verdict.accepted
                /\ Occurrences(UpperCased(arg_query), W_SELECT) <= 8
                /\ Occurrences(UpperCased(arg_query), W_JOIN) <= 10) => upper.accepted
            /\ (verdict.accepted /\ ~upper.accepted) =>
                   upper.message \in {"Query too complex: Too many SELECT statements",
                                      "Query too complex: Too many JOIN operations"}

\* C21 witness: a query with nine lower-case select has been accepted, and
\* the same query in upper case is rejected for too many SELECT statements.
C21_Witness ==
    /\ Validated /\ verdict.accepted
    /\ Occurrences(arg_query, W_select) = 9
    /\ Occurrences(arg_query, W_SELECT) = 0
    /\ validate_query(UpperCased(arg_query)) =
           Verdict(FALSE, "Query too complex: Too many SELECT statements", 0)

\* ------------------------------------- the namespace prefixes of the deny list

W_RANDOM == <<"R", "A", "N", "D", "O", "M">>
W_HTTP == <<"H", "T", "T", "P">>
\* the prefixes of main.py:138 and main.py:145
PrefixMarkers == {<<"D", "B", "M", "S", "_">>, <<"U", "T", "L", "_">>,
                  <<"S", "P", "_">>, <<"X", "P", "_">>}
W_SYS_DOT == <<"S", "Y", "S", ".">>
\* SELECT, a blank, possibly a letter, a prefix in upper or lower case, and
\* what follows it: nothing, a name, a blank, a dot
NamespaceQueries ==
    {Cat(Cat(Cat(Cat(W_SELECT, <<" ">>), lead), marker), rest) :
        lead \in {<< >>, <<"a">>},
        marker \in {m : m \in PrefixMarkers \cup {W_SYS_DOT}}
                   \cup {Lower(m) : m \in PrefixMarkers \cup {W_SYS_DOT}},
        rest \in {<< >>, <<"x">>, <<" ", "x">>, <<".", "x">>, W_RANDOM, W_HTTP}}

\* The validator alone: validate_query applied to each query of NamespaceQueries.
InitNamespace ==
    /\ max_requests = 1
    /\ window_seconds = 1
    /\ requests = << >>
    /\ blocked_clients = << >>
    /\ now = 0
    /\ calls = << >>
    /\ run = NoRun
    /\ arg_query \in NamespaceQueries
    /\ verdict = Pending
    /\ status = NoStatus
    /\ tasks = [t \in Tasks |-> Idle]
    /\ arg_table_name = << >>
    /\ environ = << >>
    /\ lookup = NoLookup
    /\ loaded = NotLoaded

SpecNamespace == InitNamespace /\ [][NextValidator]_vars

\* An identifier of q begins, in any letter case, with one of the prefixes.
BeginsWithPrefix(q) ==
    \E p \in 1..Len(q) : \E w \in PrefixMarkers : WB(q, p) /\ AtAnyCase(q, w, p)
\* q holds a name qualified by SYS: SYS. in any letter case, then a word character.
SysQualified(q) ==
    \E p \in 1..Len(q) :
        /\ WB(q, p) /\ AtAnyCase(q, W_SYS_DOT, p)
        /\ p + 4 <= Len(q) /\ IsWordChar(q[p + 4])
\* One of the prefixes stands in q as a word of its own: no word character
\* right before it and none right after it.
PrefixAlone(q, words) == \E p \in 1..Len(q) : WholeWordAnyCase(q, words, p)
BlockedPattern(v) == ~v.accepted /\ v.message = "Query contains blocked pattern"

StagedQuery(lead, deny, parens, selects, joins, concat) ==
    Cat(Cat(Cat(Cat(Cat(Cat(Cat(lead, W_SELECT), <<" ">>), deny),
        Repeat(<<"(">>, parens)), Repeat(Cat(W_SELECT, <<" ">>), selects)),
        Repeat(Cat(W_JOIN, <<" ">>), joins)), concat)
W_Concat == <<"'", "|", "|", "'">>
StagedQueries ==
    {StagedQuery(lead, deny, parens, selects, joins, concat) :
        lead \in {<< >>, <<"x", " ">>}, deny \in {<< >>, <<";">>},
        parens \in {0, MaxParentheses + 1}, selects \in {0, MaxSelects + 1},
        joins \in {0, MaxJoins + 1}, concat \in {<< >>, W_Concat}}
    \cup {Cat(StagedQuery(lead, << >>, 0, 0, 0, concat), Repeat(<<"x">>, MaxQueryLength)) :
            lead \in {<< >>, <<"x", " ">>}, concat \in {<< >>, W_Concat}}
    \cup {<< >>, <<" ">>, <<" ", "\n">>}

\* The validator alone: validate_query applied to each query of StagedQueries.
InitStages ==
    /\ max_requests = 1
    /\ window_seconds = 1
    /\ requests = << >>
    /\ blocked_clients = << >>
    /\ now = 0
    /\ calls = << >>
    /\ run = NoRun
    /\ arg_query \in StagedQueries
    /\ verdict = Pending
    /\ status = NoStatus
    /\ tasks = [t \in Tasks |-> Idle]
    /\ arg_table_name = << >>
    /\ environ = << >>
    /\ lookup = NoLookup
    /\ loaded = NotLoaded

SpecStages == InitStages /\ [][NextValidator]_vars

\* The trimmed query in upper case, the text the deny list is matched on.
TrimmedUpper(q) ==
    LET blank(i) == q[i] \in {" ", "\n", "\t"}
        lo == CHOOSE i \in 1..Len(q) : ~blank(i) /\ \A j \in 1..(i - 1) : blank(j)
        hi == CHOOSE i \in 1..Len(q) : ~blank(i) /\ \A j \in (i + 1)..Len(q) : blank(j)
    IN  IF IsBlank(q) THEN << >> ELSE UpperCased(SubSeq(q, lo, hi))
\* The stages of validate_query, each taken on its own, in their order.
StageFails(k, q) ==
    CASE k = 1 -> IsBlank(q)
      [] k = 2 -> ~StartsWithSelectTrimmed(q)
      [] k = 3 -> \E i \in 1..PatternCount : PatternMatches(i, TrimmedUpper(q))
      [] k = 4 -> Occurrences(q, <<"(">>) > 15
      [] k = 5 -> Occurrences(q, W_SELECT) > 8
      [] k = 6 -> Occurrences(q, W_JOIN) > 10
      [] k = 7 -> Len(q) > 5000
      [] k = 8 -> MatchesConcat(q)
StageReason ==
    <<"Query cannot be empty",
      "Only SELECT queries are allowed",
      "Query contains blocked pattern",
      "Query too complex: Too many parentheses",
      "Query too complex: Too many SELECT statements",
      "Query too complex: Too many JOIN operations",
      "Query too complex: Query too long",
      "Query contains suspicious string concatenation">>
FailedStages(q) == {k \in 1..8 : StageFails(k, q)}

\* C23: validate_query is first-match-wins over the stage order empty,
\* SELECT shape, deny list, parentheses, SELECT count, JOIN count, length,
\* string concatenation.  For a query that fails one stage or several, the query
\* is rejected with the reason of the earliest stage it fails; the query is
\* accepted, with 'Query validated successfully', only when it fails no stage.
C23_FirstFailingStageWins ==
    Validated =>
        LET failed == FailedStages(arg_query)
        IN  /\ failed # {} =>
                   /\ ~verdict.accepted
                   /\ verdict.message = StageReason[CHOOSE k \in failed : \A j \in failed : k <= j]
            /\ failed = {} =>
                   verdict = Verdict(TRUE, "Query validated successfully", 0)
            /\ verdict.message = "Query validated successfully" => verdict.accepted

\* C23 witness: a query that starts with SELECT and fails the deny list, the
\* three counts and the concatenation check at once has been rejected.
C23_Witness ==
    /\ Validated
    /\ FailedStages(arg_query) = {3, 4, 5, 6, 8}
    /\ verdict.message = "Query contains blocked pattern"

\* ------------------------------------------------ claims about connections

\* oracledb.connect returned a connection: the handler went on after it.
Connected == \E i \in 1..(Len(run.steps) - 1) : run.steps[i] = "connect"
Closes == Cardinality({i \in 1..Len(run.steps) : run.steps[i] = "close"})

SourceText(key) ==
    IF InMcpEnv(key) THEN <<environ[McpPrefix \o key]>>
    ELSE IF InPlainEnv(key) THEN <<environ[key]>>
    ELSE IF InDefaults(key) THEN <<Defaults[key]>>
    ELSE << >>
\* The text is missing or empty.
NoText(key) == SourceText(key) = << >> \/ SourceText(key) = << << >> >>
\* The text is an integer between lo and hi.
IntWithin(key, lo, hi) ==
    /\ SourceText(key) # << >>
    /\ ParseInt(SourceText(key)[1]).ok
    /\ lo <= ParseInt(SourceText(key)[1]).value
    /\ ParseInt(SourceText(key)[1]).value <= hi
\* The text is an integer above zero.
IntPositive(key) ==
    /\ SourceText(key) # << >>
    /\ ParseInt(SourceText(key)[1]).ok
    /\ ParseInt(SourceText(key)[1]).value > 0
SourcesViolate ==
    \/ NoText(K_ORACLE_HOST) \/ NoText(K_ORACLE_SERVICE_NAME)
    \/ NoText(K_ORACLE_USERNAME) \/ NoText(K_ORACLE_PASSWORD)
    \/ ~IntWithin(K_ORACLE_PORT, 1, 65535)
    \/ ~IntPositive(K_CONNECTION_TIMEOUT)
    \/ ~IntPositive(K_QUERY_TIMEOUT)
    \/ ~IntWithin(K_MAX_ROWS, 1, 10000)

\* C24: every DatabaseConfig that load_config returns has non-empty host,
\* service_name, username and password, 1 <= port <= 65535, both timeouts > 0
\* and 1 <= max_rows <= 10000, each field being the value the sources give;
\* when the values of the sources violate one of these, load_config raises
\* MissingParameterError or ValidationError and returns no configuration; and
\* it never raises any other error.
C24_LoadedConfigValid ==
    loaded # NotLoaded =>
        /\ loaded.outcome \in {"config", "MissingParameterError", "ValidationError"}
        /\ loaded.outcome # "config" => loaded.config = << >>
        /\ SourcesViolate => loaded.outcome \in {"MissingParameterError", "ValidationError"}
        /\ loaded.outcome = "config" =>
               LET c == loaded.config[1]
               IN  /\ c.host # << >> /\ c.service_name # << >>
                   /\ c.username # << >> /\ c.password # << >>
                   /\ 1 <= c.port /\ c.port <= 65535
                   /\ c.connection_timeout > 0 /\ c.query_timeout > 0
                   /\ 1 <= c.max_rows /\ c.max_rows <= 10000
                   /\ <<c.host>> = SourceText(K_ORACLE_HOST)
                   /\ <<c.username>> = SourceText(K_ORACLE_USERNAME)
                   /\ c.port = ParseInt(SourceText(K_ORACLE_PORT)[1]).value
                   /\ c.max_rows = ParseInt(SourceText(K_MAX_ROWS)[1]).value

\* C24 witness: a configuration has been returned with the port and max_rows
\* at their upper limits, the port taken from the environment.
C24_Witness ==
    /\ loaded.outcome = "config"
    /\ loaded.config[1].port = 65535
    /\ loaded.config[1].max_rows = 10000
    /\ loaded.config[1].connection_timeout = 5
====
